---- MODULE Spec2Model ----
(***************************************************************************)
(* Model of davids-db/video-cropper.                                       *)
(*                                                                         *)
(*   Part I   the job lifecycle: api.submit, worker.process and            *)
(*            cleanup.cleanup acting on the job store (Firestore).         *)
(*   Part II  the streaming pipeline of VideoCropper._process_video: the   *)
(*            reader thread, the bounded queue and the consumer that       *)
(*            feeds the encoder.                                           *)
(*                                                                         *)
(* Time is counted in minutes.  Strings that the code takes apart (URIs)   *)
(* are sequences of one-character strings.                                 *)
(***************************************************************************)
EXTENDS Integers, Sequences, FiniteSets, TLC

(***************************************************************************)
(* Bounds of the model.                                                    *)
(***************************************************************************)
\* number of job ids submit can hand out
MaxJobs == 2
\* number of events from outside in a behaviour: requests to submit, task
\* deliveries (the dispatcher is at-least-once), cleanup requests and clock
\* advances
MaxEvents == 5
\* page size of the reclamation queries: .limit(500) in cleanup.py:70 and
\* cleanup.py:91, scaled down so that a scan of MaxJobs documents needs more
\* than one page
PageLimit == 1

JobIds == 1..MaxJobs
Workers == {"w1", "w2"}

Min(a, b) == IF a <= b THEN a ELSE b

(***************************************************************************)
(* Strings as sequences of characters, and the str methods the code uses.  *)
(***************************************************************************)
StartsWith(s, p) == Len(s) >= Len(p) /\ SubSeq(s, 1, Len(p)) = p

\* str.find / str.rfind, 1-based, 0 when the character does not occur
Find(s, c) ==
    IF \E i \in 1..Len(s) : s[i] = c
    THEN CHOOSE i \in 1..Len(s) : s[i] = c /\ \A k \in 1..(i - 1) : s[k] # c
    ELSE 0
RFind(s, c) ==
    IF \E i \in 1..Len(s) : s[i] = c
    THEN CHOOSE i \in 1..Len(s) : s[i] = c /\ \A k \in (i + 1)..Len(s) : s[k] # c
    ELSE 0

\* s.split(c, 1): the part before the first c and the part after it
SplitOnce(s, c) ==
    LET i == Find(s, c) IN
    IF i = 0 THEN <<s>> ELSE <<SubSeq(s, 1, i - 1), SubSeq(s, i + 1, Len(s))>>

GsPrefix == <<"g", "s", ":", "/", "/">>
HttpPrefix == <<"h", "t", "t", "p", ":", "/", "/">>
HttpsPrefix == <<"h", "t", "t", "p", "s", ":", "/", "/">>
CroppedSuffix == <<"_", "c", "r", "o", "p", "p", "e", "d">>
DefaultExt == <<".", "m", "p", "4">>
DefaultName == <<"v", "i", "d", "e", "o", ".", "m", "p", "4">>

ErrNotGs == "Not a gs:// URI"
\* video_cropper._parse_gs_uri, lines 72-78: <<bucket, blob>>, or the
\* ValueError raised for a URI that does not start with gs://
ParsedGs(parts) == <<parts[1], IF Len(parts) > 1 THEN parts[2] ELSE <<>>>>
_parse_gs_uri(uri) ==
    IF ~StartsWith(uri, GsPrefix)
    THEN [raises |-> "ValueError", error |-> ErrNotGs]
    ELSE ParsedGs(SplitOnce(SubSeq(uri, 6, Len(uri)), "/"))

\* video_cropper._splitext_gs_path: os.path.splitext, which splits at the
\* last dot of the last path component unless that component is all dots
\* up to it
_splitext_gs_path(p) ==
    LET sep == RFind(p, "/")
        dot == RFind(p, ".")
    IN  IF dot > sep /\ \E k \in (sep + 1)..(dot - 1) : p[k] # "."
        THEN <<SubSeq(p, 1, dot - 1), SubSeq(p, dot, Len(p))>>
        ELSE <<p, <<>>>>

\* os.path.basename
Basename(p) == SubSeq(p, RFind(p, "/") + 1, Len(p))

OrElse(s, dflt) == IF s = <<>> THEN dflt ELSE s

ErrNoBucket == "HTTP(S) input requires OUTPUT_BUCKET to be set for output writes."

\* VideoIO.output_uri_for_input: [ok, uri] or [ok, error] when it raises
output_uri_for_input(input_uri, output_bucket_for_http) ==
    IF StartsWith(input_uri, GsPrefix)
    THEN LET pb == _parse_gs_uri(input_uri)
             be == _splitext_gs_path(pb[2])
         IN  [ok |-> TRUE,
              uri |-> GsPrefix \o pb[1] \o <<"/">> \o be[1] \o CroppedSuffix
                      \o OrElse(be[2], DefaultExt)]
    ELSE IF output_bucket_for_http = <<>>
    THEN [ok |-> FALSE, error |-> ErrNoBucket]
    ELSE LET name == OrElse(Basename(SplitOnce(input_uri, "?")[1]), DefaultName)
             be == _splitext_gs_path(name)
         IN  [ok |-> TRUE,
              uri |-> GsPrefix \o output_bucket_for_http \o <<"/">> \o be[1]
                      \o CroppedSuffix \o OrElse(be[2], DefaultExt)]

\* the source URIs requests carry: gs://b/d.x/v.mp4 and https://h/a?x.y
UriGs == <<"g", "s", ":", "/", "/", "b", "/", "d", ".", "x", "/", "v", ".", "m", "p", "4">>
UriHttp == <<"h", "t", "t", "p", "s", ":", "/", "/", "h", "/", "a", "?", "x", ".", "y">>
Uris == {UriGs, UriHttp}

\* the scheme check of api.submit
ValidScheme(uri) ==
    StartsWith(uri, GsPrefix) \/ StartsWith(uri, HttpPrefix) \/ StartsWith(uri, HttpsPrefix)

(***************************************************************************)
(* Part I: the job lifecycle.                                              *)
(***************************************************************************)
VARIABLES
    now,              \* the wall clock, now_utc(), in minutes
    events,           \* events from outside so far
    retention_days,   \* os.environ RETENTION_DAYS
    stalled_minutes,  \* os.environ STALLED_MINUTES
    output_bucket,    \* os.environ OUTPUT_BUCKET, <<>> when unset
    store,            \* the job collection: document id -> document
    next_id,          \* the next job id uuid4 hands out
    pending,          \* submit requests that persisted their job, task not yet created
    fate,             \* job id -> the pipeline outcome fixed for it, or "any"
    tasks,            \* job ids with a task in the dispatch queue
    wk,               \* worker request -> its position and locals in process()
    cl,               \* the cleanup request: its position and locals in cleanup()
    snap,             \* the store as the running cleanup request found it
    quiet             \* no request but cleanup wrote to the store since it started

\* Part II, one call of VideoCropper._process_video
VARIABLES
    n_frames,         \* the number of frames the source decodes
    batch_size,       \* cfg.detect_batch_size
    cap,              \* the decoder: frames read so far, released or not
    rd,               \* the reader thread: its position and locals in _reader
    frame_queue,      \* the items in frame_queue, oldest first
    put_log,          \* every item the reader put on the queue, in order
    cs,               \* the main thread: its position and locals
    proc,             \* the encoder process
    written,          \* the frames written to proc.stdin, in order
    result            \* how the call ended

pipeVars == <<n_frames, batch_size, cap, rd, frame_queue, put_log, cs, proc,
              written, result>>

jobVars == <<now, events, retention_days, stalled_minutes, output_bucket, store,
             next_id, pending, fate, tasks, wk, cl, snap, quiet>>

\* Part III, the calls of VideoCropper.run in one worker process
VARIABLES
    frame_w,          \* the width of the source's frames
    frame_h,          \* the height of the source's frames
    cfg,              \* self.cfg
    heap,             \* the CropWindowSmoother objects constructed so far
    cur,              \* self.smoother: the object the attribute refers to
    inv,              \* request thread -> its position and locals in run()
    dirs,             \* the scratch directories on disk
    runs,             \* the calls of run so far
    last              \* the last call of _compute_crop that returned

runVars == <<frame_w, frame_h, cfg, heap, cur, inv, dirs, runs, last>>

\* Part IV, the calls of VideoCropper._crop_and_letterbox
VARIABLES
    max_upscale,      \* self.cfg.max_upscale
    shown             \* the last call of _crop_and_letterbox that ended

renderVars == <<max_upscale, shown>>

MinutesPerDay == 24 * 60
\* timedelta(days=d) and timedelta(minutes=m), in minutes
Days(d) == d * MinutesPerDay
Minutes(m) == m

\* the clock advances in steps of one day: a document written in the current
\* step is younger than any threshold, one written a step ago is older than
\* a stall threshold of minutes, one created two steps ago is older than a
\* retention of one day
TickStep == MinutesPerDay
RetentionChoices == {1}
StalledChoices == {0, 30}
BucketChoices == {<<>>, <<"o">>}

Terminal == {"done", "failed"}

\* DocumentReference.update: the named fields are set, every other field of
\* the document is kept
Update(doc, fields) ==
    [k \in (DOMAIN doc) \cup (DOMAIN fields) |->
        IF k \in DOMAIN fields THEN fields[k] ELSE doc[k]]

\* the document api.submit persists
SubmitDoc(job_id, uri, ts) ==
    [job_id |-> job_id, uri |-> uri, status |-> "queued",
     created_at_ts |-> ts, updated_at_ts |-> ts]

\* worker.process lines 77-78: "if not uri"
MissingUriInverted(doc) == doc.uri # <<>>
MissingUri(doc) == doc.uri = <<>>

\* worker.process line 83: the write that marks the job processing
MarkFields(ts) == [status |-> "processing", updated_at_ts |-> ts]

\* what VideoCropper.run(uri) can do: return meta, raise a ProcessingError
\* or raise another exception; the message stands for str(e)
ErrOpen == "Failed to open input video"
ErrOther == "download failed"
RunOutcomes(uri, bucket) ==
    LET out == output_uri_for_input(uri, bucket) IN
    IF ~out.ok
    THEN {[kind |-> "processing_error", msg |-> out.error]}
    ELSE {[kind |-> "ok", output_uri |-> out.uri],
          [kind |-> "processing_error", msg |-> ErrOpen],
          [kind |-> "exception", msg |-> ErrOther]}

\* no outcome fixed in advance: each run of the pipeline may end in any way
AnyOutcome == [kind |-> "any"]

\* worker.process lines 88-102: the write that follows the pipeline's outcome
FinishFieldsStamped(o, ts) ==
    CASE o.kind = "ok" ->
            [status |-> "done", result |-> [output_uri |-> o.output_uri \o <<ts>>],
             updated_at_ts |-> ts]
      [] o.kind = "processing_error" ->
            [status |-> "failed", error |-> <<o.msg>>, updated_at_ts |-> ts]
      [] OTHER ->
            [status |-> "failed", error |-> <<"unexpected: ", o.msg>>,
             updated_at_ts |-> ts]
FinishFieldsSameMessage(o, ts) ==
    CASE o.kind = "ok" ->
            [status |-> "done", result |-> [output_uri |-> o.output_uri],
             updated_at_ts |-> ts]
      [] OTHER ->
            [status |-> "failed", error |-> <<o.msg>>, updated_at_ts |-> ts]
FinishFields(o, ts) ==
    CASE o.kind = "ok" ->
            [status |-> "done", result |-> [output_uri |-> o.output_uri],
             updated_at_ts |-> ts]
      [] o.kind = "processing_error" ->
            [status |-> "failed", error |-> <<o.msg>>, updated_at_ts |-> ts]
      [] OTHER ->
            [status |-> "failed", error |-> <<"unexpected: ", o.msg>>,
             updated_at_ts |-> ts]

\* cleanup.cleanup lines 78-86: the write of the stall scan
StalledFieldsStale(minutes, ts) ==
    [status |-> "failed",
     error |-> <<"stalled: no update in ", minutes, " minutes">>]
StalledFields(minutes, ts) ==
    [status |-> "failed",
     error |-> <<"stalled: no update in ", minutes, " minutes">>,
     updated_at_ts |-> ts]

\* the stall query: status == s and updated_at_ts < cutoff
StalledMatch(s, cutoff) ==
    {j \in DOMAIN store : store[j].status = s /\ store[j].updated_at_ts < cutoff}
\* the retention query: created_at_ts < cutoff
ExpiredByUpdate(cutoff) ==
    {j \in DOMAIN store : store[j].updated_at_ts < cutoff}
ExpiredMatch(cutoff) ==
    {j \in DOMAIN store : store[j].created_at_ts < cutoff}
\* .limit(n).stream(): at most n of the matching documents
PagesUnlimited(matching, n) == {matching}
Pages(matching, n) ==
    {p \in SUBSET matching : Cardinality(p) = Min(n, Cardinality(matching))}

WkIdle == [pc |-> "idle", job |-> 0, uri |-> <<>>]
ClIdle == [pc |-> "idle", cutoff |-> 0, stalled_cutoff |-> 0, status |-> "none",
           docs |-> {}, now_ts |-> 0]
NoDocs == [j \in {} |-> 0]

JobInit ==
    /\ now = 0
    /\ events = 0
    /\ retention_days \in RetentionChoices
    /\ stalled_minutes \in StalledChoices
    /\ output_bucket \in BucketChoices
    /\ store = NoDocs
    /\ next_id = 1
    /\ pending = {}
    /\ fate = [j \in JobIds |-> AnyOutcome]
    /\ tasks = {}
    /\ wk = [w \in Workers |-> WkIdle]
    /\ cl = ClIdle
    /\ snap = NoDocs
    /\ quiet = TRUE

\* a write to the store by a request other than cleanup
Disturb == quiet' = (quiet /\ cl.pc = "idle")

Tick ==
    /\ events < MaxEvents
    /\ now' = now + TickStep
    /\ events' = events + 1
    /\ UNCHANGED <<retention_days, stalled_minutes, output_bucket, store, next_id,
                   pending, fate, tasks, wk, cl, snap, quiet>>
    /\ UNCHANGED <<pipeVars, runVars, renderVars>>

(* api.submit ************************************************************)
\* the uri field of a request body: a source URI, a URI of another scheme,
\* or none
UriFtp == <<"f", "t", "p", ":", "/", "/", "h", "/", "a">>
SubmitInputs == {UriGs, UriFtp, <<>>}

\* lines 125-154: validate, then persist the job document
SubmitPersist(uri, f) ==
    /\ uri # <<>>
    /\ ValidScheme(uri)
    /\ next_id <= MaxJobs
    /\ events < MaxEvents
    /\ events' = events + 1
    /\ f = AnyOutcome \/ f \in RunOutcomes(uri, output_bucket)
    /\ store' = [j \in (DOMAIN store) \cup {next_id} |->
                    IF j = next_id THEN SubmitDoc(next_id, uri, now) ELSE store[j]]
    /\ fate' = [fate EXCEPT ![next_id] = f]
    /\ pending' = pending \cup {next_id}
    /\ next_id' = next_id + 1
    /\ Disturb
    /\ UNCHANGED <<now, retention_days, stalled_minutes, output_bucket,
                   tasks, wk, cl, snap>>
    /\ UNCHANGED <<pipeVars, runVars, renderVars>>

\* lines 156-179: create the dispatch task
SubmitEnqueue(j) ==
    /\ j \in pending
    /\ pending' = pending \ {j}
    /\ tasks' = tasks \cup {j}
    /\ UNCHANGED <<now, events, retention_days, stalled_minutes, output_bucket, store,
                   next_id, fate, wk, cl, snap, quiet>>
    /\ UNCHANGED <<pipeVars, runVars, renderVars>>

\* line 177 raises: the job stays persisted with no task
SubmitEnqueueFail(j) ==
    /\ j \in pending
    /\ pending' = pending \ {j}
    /\ UNCHANGED <<now, events, retention_days, stalled_minutes, output_bucket, store,
                   next_id, fate, tasks, wk, cl, snap, quiet>>
    /\ UNCHANGED <<pipeVars, runVars, renderVars>>

(* worker.process ********************************************************)
\* the dispatcher delivers the task of job j to a worker request
Deliver(w, j) ==
    /\ j \in tasks
    /\ wk[w].pc = "idle"
    /\ events < MaxEvents
    /\ events' = events + 1
    /\ wk' = [wk EXCEPT ![w] = [pc |-> "get", job |-> j, uri |-> <<>>]]
    /\ UNCHANGED <<now, retention_days, stalled_minutes, output_bucket, store,
                   next_id, pending, fate, tasks, cl, snap, quiet>>
    /\ UNCHANGED <<pipeVars, runVars, renderVars>>

\* a request body without job_id, and a job id no submission handed out
NoJobId == 0
UnknownId == MaxJobs + 1
\* a request to /process that is not the task of a submitted job
Stray(w, j) ==
    /\ j \in {NoJobId, UnknownId}
    /\ wk[w].pc = "idle"
    /\ events < MaxEvents
    /\ events' = events + 1
    /\ wk' = [wk EXCEPT ![w] = [pc |-> "get", job |-> j, uri |-> <<>>]]
    /\ UNCHANGED <<now, retention_days, stalled_minutes, output_bucket, store,
                   next_id, pending, fate, tasks, cl, snap, quiet>>
    /\ UNCHANGED <<pipeVars, runVars, renderVars>>

\* process for a document that is not there, written with set(..., merge=True)
\* in place of update(): the write creates the document
GetCreates(w) ==
    LET j == wk[w].job IN
    /\ wk[w].pc = "get"
    /\ IF j \notin DOMAIN store
       THEN /\ store' = [i \in (DOMAIN store) \cup {j} |->
                           IF i = j THEN MarkFields(now) ELSE store[i]]
            /\ wk' = [wk EXCEPT ![w] = WkIdle]
            /\ Disturb
       ELSE /\ wk' = [wk EXCEPT ![w] = [pc |-> "mark", job |-> j, uri |-> store[j].uri]]
            /\ UNCHANGED <<store, quiet>>
    /\ UNCHANGED <<now, events, retention_days, stalled_minutes, output_bucket,
                   next_id, pending, fate, tasks, cl, snap>>
    /\ UNCHANGED <<pipeVars, runVars, renderVars>>
\* lines 63-76: 400 without a job id; read the document, 404 when absent;
\* the request keeps the uri it read
Get(w) ==
    LET j == wk[w].job IN
    /\ wk[w].pc = "get"
    /\ IF j = NoJobId \/ j \notin DOMAIN store
       THEN /\ wk' = [wk EXCEPT ![w] = WkIdle]
            /\ UNCHANGED <<store, quiet>>
       ELSE /\ wk' = [wk EXCEPT ![w] = [pc |-> "mark", job |-> j, uri |-> store[j].uri]]
            /\ UNCHANGED <<store, quiet>>
    /\ UNCHANGED <<now, events, retention_days, stalled_minutes, output_bucket,
                   next_id, pending, fate, tasks, cl, snap>>
    /\ UNCHANGED <<pipeVars, runVars, renderVars>>

\* worker.process line 79: the write for a document read without uri
MissingUriFields(ts) ==
    [status |-> "failed", error |-> <<"Job missing uri">>, updated_at_ts |-> ts]

\* lines 78-83, the write that follows the read: failed when the document
\* read had no uri, processing otherwise; update() of a document deleted
\* since the read raises NotFound and the request ends with nothing written
Mark(w) ==
    LET j == wk[w].job IN
    /\ wk[w].pc = "mark"
    /\ IF j \notin DOMAIN store
       THEN /\ wk' = [wk EXCEPT ![w] = WkIdle]
            /\ UNCHANGED <<store, quiet>>
       ELSE IF MissingUri(wk[w])
       THEN /\ store' = [store EXCEPT ![j] = Update(@, MissingUriFields(now))]
            /\ wk' = [wk EXCEPT ![w] = WkIdle]
            /\ Disturb
       ELSE /\ store' = [store EXCEPT ![j] = Update(@, MarkFields(now))]
            /\ wk' = [wk EXCEPT ![w].pc = "run"]
            /\ Disturb
    /\ UNCHANGED <<now, events, retention_days, stalled_minutes, output_bucket,
                   next_id, pending, fate, tasks, cl, snap>>
    /\ UNCHANGED <<pipeVars, runVars, renderVars>>

\* lines 85-103: run the pipeline and write its outcome; when the document
\* was deleted every update() raises NotFound and nothing is written
Finish(w, o) ==
    LET j == wk[w].job IN
    /\ wk[w].pc = "run"
    /\ o \in RunOutcomes(wk[w].uri, output_bucket)
    /\ fate[j] = AnyOutcome \/ fate[j] = o
    /\ IF j \in DOMAIN store
       THEN /\ store' = [store EXCEPT ![j] = Update(@, FinishFields(o, now))]
            /\ Disturb
       ELSE UNCHANGED <<store, quiet>>
    /\ wk' = [wk EXCEPT ![w] = WkIdle]
    /\ UNCHANGED <<now, events, retention_days, stalled_minutes, output_bucket,
                   next_id, pending, fate, tasks, cl, snap>>
    /\ UNCHANGED <<pipeVars, runVars, renderVars>>

FinishAny(w) == \E o \in RunOutcomes(wk[w].uri, output_bucket) : Finish(w, o)

\* the worker's process dies while the pipeline runs: nothing is written
Crash(w) ==
    /\ wk[w].pc = "run"
    /\ wk' = [wk EXCEPT ![w] = WkIdle]
    /\ UNCHANGED <<now, events, retention_days, stalled_minutes, output_bucket, store,
                   next_id, pending, fate, tasks, cl, snap, quiet>>
    /\ UNCHANGED <<pipeVars, runVars, renderVars>>

(* cleanup.cleanup *******************************************************)
\* lines 51-64: read the configuration, compute the cutoffs
CleanupBegin ==
    /\ cl.pc = "idle"
    /\ cl' = [ClIdle EXCEPT
                !.pc = IF stalled_minutes > 0 THEN "stall_query" ELSE "ret_query",
                !.status = IF stalled_minutes > 0 THEN "queued" ELSE "none",
                !.cutoff = now - Days(retention_days),
                !.stalled_cutoff = IF stalled_minutes > 0
                                   THEN now - Minutes(stalled_minutes) ELSE 0]
    /\ snap' = store
    /\ quiet' = TRUE
    /\ UNCHANGED <<now, retention_days, stalled_minutes, output_bucket, store,
                   next_id, pending, fate, tasks, wk>>
    /\ UNCHANGED <<pipeVars, runVars, renderVars>>

\* one cleanup request out of the bounded number of requests explored
CleanupStart ==
    /\ events < MaxEvents
    /\ events' = events + 1
    /\ CleanupBegin

\* the scheduler calls cleanup again and again
CleanupRepeat ==
    /\ UNCHANGED events
    /\ CleanupBegin

\* lines 65-74: one page of the stall query for the current status; an empty
\* page ends that status's loop
StallQuery ==
    LET matching == StalledMatch(cl.status, cl.stalled_cutoff) IN
    /\ cl.pc = "stall_query"
    /\ IF matching = {}
       THEN cl' = IF cl.status = "queued"
                  THEN [cl EXCEPT !.status = "processing", !.docs = {}]
                  ELSE [cl EXCEPT !.pc = "ret_query", !.status = "none", !.docs = {}]
       ELSE \E page \in Pages(matching, PageLimit) :
                cl' = [cl EXCEPT !.pc = "stall_batch", !.docs = page]
    /\ UNCHANGED <<now, events, retention_days, stalled_minutes, output_bucket, store,
                   next_id, pending, fate, tasks, wk, snap, quiet>>
    /\ UNCHANGED <<pipeVars, runVars, renderVars>>

\* lines 76-87: open the batch, read the clock, queue one update per document
StallBatch ==
    /\ cl.pc = "stall_batch"
    /\ cl' = [cl EXCEPT !.pc = "stall_commit", !.now_ts = now]
    /\ UNCHANGED <<now, events, retention_days, stalled_minutes, output_bucket, store,
                   next_id, pending, fate, tasks, wk, snap, quiet>>
    /\ UNCHANGED <<pipeVars, runVars, renderVars>>

\* line 88: commit the batch; the updates carry no precondition on the
\* document's current fields
StallCommit ==
    /\ cl.pc = "stall_commit"
    /\ store' = [j \in DOMAIN store |->
                    IF j \in cl.docs
                    THEN Update(store[j], StalledFields(stalled_minutes, cl.now_ts))
                    ELSE store[j]]
    /\ cl' = [cl EXCEPT !.pc = "stall_query"]
    /\ UNCHANGED <<now, events, retention_days, stalled_minutes, output_bucket,
                   next_id, pending, fate, tasks, wk, snap, quiet>>
    /\ UNCHANGED <<pipeVars, runVars, renderVars>>

\* lines 90-94: one page of the retention query; an empty page ends the loop
RetQuery ==
    LET matching == ExpiredMatch(cl.cutoff) IN
    /\ cl.pc = "ret_query"
    /\ IF matching = {}
       THEN cl' = [cl EXCEPT !.pc = "done", !.docs = {}]
       ELSE \E page \in Pages(matching, PageLimit) :
                cl' = [cl EXCEPT !.pc = "ret_commit", !.docs = page]
    /\ UNCHANGED <<now, events, retention_days, stalled_minutes, output_bucket, store,
                   next_id, pending, fate, tasks, wk, snap, quiet>>
    /\ UNCHANGED <<pipeVars, runVars, renderVars>>

\* lines 96-99: delete the page
RetCommit ==
    /\ cl.pc = "ret_commit"
    /\ store' = [j \in (DOMAIN store) \ cl.docs |-> store[j]]
    /\ cl' = [cl EXCEPT !.pc = "ret_query"]
    /\ UNCHANGED <<now, events, retention_days, stalled_minutes, output_bucket,
                   next_id, pending, fate, tasks, wk, snap, quiet>>
    /\ UNCHANGED <<pipeVars, runVars, renderVars>>

\* lines 101-119: log and answer
CleanupReturn ==
    /\ cl.pc = "done"
    /\ cl' = ClIdle
    /\ snap' = NoDocs
    /\ quiet' = TRUE
    /\ UNCHANGED <<now, events, retention_days, stalled_minutes, output_bucket, store,
                   next_id, pending, fate, tasks, wk>>
    /\ UNCHANGED <<pipeVars, runVars, renderVars>>

JobNext ==
    \/ Tick
    \/ \E u \in SubmitInputs : SubmitPersist(u, AnyOutcome)
    \/ \E j \in JobIds : SubmitEnqueue(j)
    \/ \E j \in JobIds : SubmitEnqueueFail(j)
    \/ \E w \in Workers, j \in JobIds : Deliver(w, j)
    \/ \E w \in Workers : Get(w)
    \/ \E w \in Workers : Mark(w)
    \/ \E w \in Workers : FinishAny(w)
    \/ \E w \in Workers : Crash(w)
    \/ CleanupStart
    \/ StallQuery
    \/ StallBatch
    \/ StallCommit
    \/ RetQuery
    \/ RetCommit
    \/ CleanupReturn


(***************************************************************************)
(* Part II: VideoCropper._process_video.                                   *)
(*                                                                         *)
(* A frame is the pair (idx, frame) the reader builds: idx is the reader's *)
(* counter, frame the picture, which is named by its position in the       *)
(* source.                                                                 *)
(***************************************************************************)
\* frames in the longest source
MaxFrames == 6
\* the largest cfg.detect_batch_size
MaxBatch == 2
\* Q.Queue(maxsize=4)
QueueMax == 4

\* the three kinds of item on the queue: a batch, the None sentinel, an
\* exception caught in the reader
Batch(buf) == [kind |-> "batch", frames |-> buf]
Sentinel == [kind |-> "none"]
Failure(e) == [kind |-> "exc", exc |-> e]

ReadError == "cap.read raised"
DetectError == "detect raised"
BrokenPipe == "BrokenPipeError"
OpenError == "Failed to open input video"
DimensionsError == "Invalid video dimensions"
PopenError == "FileNotFoundError"
EncodeError == "ffmpeg encode failed"
\* the exceptions of _process_video that are a ProcessingError, and the others
ProcessingErrors == {OpenError, DimensionsError, EncodeError}
OtherErrors == {ReadError, DetectError, BrokenPipe, PopenError}

RdNotStarted == [pc |-> "not_started", buf |-> <<>>, idx |-> 0, exc |-> "none"]
CsStart == [pc |-> "open", item |-> <<>>, pos |-> 0, total |-> 0, exc |-> "none",
            warned |-> FALSE, dets |-> <<>>, calls |-> <<>>, pairs |-> <<>>]
\* unflushed: bytes written to proc.stdin are still in its buffer
ProcNone == [state |-> "none", stdin_open |-> FALSE, returncode |-> 0,
             killed |-> FALSE, waited |-> FALSE, unflushed |-> FALSE]

PipeInit ==
    /\ n_frames \in 0..MaxFrames
    /\ batch_size \in 1..MaxBatch
    /\ cap = [pos |-> 0, released |-> FALSE]
    /\ rd = RdNotStarted
    /\ frame_queue = <<>>
    /\ put_log = <<>>
    /\ cs = CsStart
    /\ proc = ProcNone
    /\ written = <<>>
    /\ result = [kind |-> "running"]

\* frame_queue.put(item): blocks while the queue is full
QueuePut(q, item) == Append(q, item)
CanPutUnbounded == Len(frame_queue) < QueueMax + 1
CanPut == Len(frame_queue) < QueueMax

(* the main thread, lines 253-317 ****************************************)
\* lines 253-255: open the capture; an input that does not open raises
Open ==
    /\ cs.pc = "open"
    /\ \/ /\ cs' = [cs EXCEPT !.pc = "dimensions"]
          /\ UNCHANGED result
       \/ /\ cs' = [cs EXCEPT !.pc = "raised", !.exc = OpenError]
          /\ result' = [kind |-> "raised", exc |-> OpenError]
    /\ UNCHANGED <<n_frames, batch_size, cap, rd, frame_queue, put_log, proc, written>>
    /\ UNCHANGED <<jobVars, runVars, renderVars>>

\* lines 257-263: a capture that reports width or height 0 raises, the
\* capture left open
CheckDimensions ==
    /\ cs.pc = "dimensions"
    /\ \/ /\ cs' = [cs EXCEPT !.pc = "start_reader"]
          /\ UNCHANGED result
       \/ /\ cs' = [cs EXCEPT !.pc = "raised", !.exc = DimensionsError]
          /\ result' = [kind |-> "raised", exc |-> DimensionsError]
    /\ UNCHANGED <<n_frames, batch_size, cap, rd, frame_queue, put_log, proc, written>>
    /\ UNCHANGED <<jobVars, runVars, renderVars>>

\* lines 313-314: start the reader thread
StartReader ==
    /\ cs.pc = "start_reader"
    /\ cs' = [cs EXCEPT !.pc = "popen"]
    /\ rd' = [rd EXCEPT !.pc = "read"]
    /\ UNCHANGED <<n_frames, batch_size, cap, frame_queue, put_log, proc, written, result>>
    /\ UNCHANGED <<jobVars, runVars, renderVars>>

\* line 317: start the encoder; when Popen raises the call is left before
\* the try of line 318: the capture is not released and the reader, not
\* joined, goes on
Popen ==
    /\ cs.pc = "popen"
    /\ \/ /\ cs' = [cs EXCEPT !.pc = "get"]
          /\ proc' = [proc EXCEPT !.state = "running", !.stdin_open = TRUE]
          /\ UNCHANGED result
       \/ /\ cs' = [cs EXCEPT !.pc = "raised", !.exc = PopenError]
          /\ result' = [kind |-> "raised", exc |-> PopenError]
          /\ UNCHANGED proc
    /\ UNCHANGED <<n_frames, batch_size, cap, rd, frame_queue, put_log, written>>
    /\ UNCHANGED <<jobVars, runVars, renderVars>>

(* _reader, lines 294-311 ************************************************)
\* cap.read() returns a frame: lines 305-309
ReadFrame ==
    /\ rd.pc = "read"
    /\ ~cap.released
    /\ cap.pos < n_frames
    /\ cap' = [cap EXCEPT !.pos = @ + 1]
    /\ LET buf == Append(rd.buf, <<rd.idx, cap.pos>>) IN
       rd' = [rd EXCEPT !.buf = buf, !.idx = @ + 1,
                        !.pc = IF Len(buf) >= batch_size THEN "put_batch" ELSE "read"]
    /\ UNCHANGED <<n_frames, batch_size, frame_queue, put_log, cs, proc, written, result>>
    /\ UNCHANGED <<jobVars, runVars, renderVars>>

\* cap.read() returns ok = False, at the end of the source or on a released
\* capture: lines 300-304
ReadEndDropsPartial ==
    /\ rd.pc = "read"
    /\ cap.released \/ cap.pos >= n_frames
    /\ rd' = [rd EXCEPT !.pc = "put_none"]
    /\ UNCHANGED <<n_frames, batch_size, cap, frame_queue, put_log, cs, proc, written,
                   result>>
    /\ UNCHANGED <<jobVars, runVars, renderVars>>
ReadEnd ==
    /\ rd.pc = "read"
    /\ cap.released \/ cap.pos >= n_frames
    /\ rd' = [rd EXCEPT !.pc = IF rd.buf # <<>> THEN "put_last" ELSE "put_none"]
    /\ UNCHANGED <<n_frames, batch_size, cap, frame_queue, put_log, cs, proc, written,
                   result>>
    /\ UNCHANGED <<jobVars, runVars, renderVars>>

\* cap.read() raises: line 310
ReadRaises ==
    /\ rd.pc = "read"
    /\ rd' = [rd EXCEPT !.pc = "put_exc", !.exc = ReadError]
    /\ UNCHANGED <<n_frames, batch_size, cap, frame_queue, put_log, cs, proc, written,
                   result>>
    /\ UNCHANGED <<jobVars, runVars, renderVars>>

\* line 308: put a full batch and start a new one
PutBatch ==
    /\ rd.pc = "put_batch"
    /\ CanPut
    /\ frame_queue' = QueuePut(frame_queue, Batch(rd.buf))
    /\ put_log' = Append(put_log, Batch(rd.buf))
    /\ rd' = [rd EXCEPT !.pc = "read", !.buf = <<>>]
    /\ UNCHANGED <<n_frames, batch_size, cap, cs, proc, written, result>>
    /\ UNCHANGED <<jobVars, runVars, renderVars>>

\* the last, partial batch is put and the reader leaves without a sentinel
PutLastThenStop ==
    /\ rd.pc = "put_last"
    /\ CanPut
    /\ frame_queue' = QueuePut(frame_queue, Batch(rd.buf))
    /\ put_log' = Append(put_log, Batch(rd.buf))
    /\ rd' = [rd EXCEPT !.pc = "done"]
    /\ UNCHANGED <<n_frames, batch_size, cap, cs, proc, written, result>>
    /\ UNCHANGED <<jobVars, runVars, renderVars>>
\* line 302: put the last, partial batch
PutLast ==
    /\ rd.pc = "put_last"
    /\ CanPut
    /\ frame_queue' = QueuePut(frame_queue, Batch(rd.buf))
    /\ put_log' = Append(put_log, Batch(rd.buf))
    /\ rd' = [rd EXCEPT !.pc = "put_none"]
    /\ UNCHANGED <<n_frames, batch_size, cap, cs, proc, written, result>>
    /\ UNCHANGED <<jobVars, runVars, renderVars>>

\* line 303: put the sentinel and leave the loop
PutNone ==
    /\ rd.pc = "put_none"
    /\ CanPut
    /\ frame_queue' = QueuePut(frame_queue, Sentinel)
    /\ put_log' = Append(put_log, Sentinel)
    /\ rd' = [rd EXCEPT !.pc = "done"]
    /\ UNCHANGED <<n_frames, batch_size, cap, cs, proc, written, result>>
    /\ UNCHANGED <<jobVars, runVars, renderVars>>

\* line 311: put the exception caught
PutExc ==
    /\ rd.pc = "put_exc"
    /\ CanPut
    /\ frame_queue' = QueuePut(frame_queue, Failure(rd.exc))
    /\ put_log' = Append(put_log, Failure(rd.exc))
    /\ rd' = [rd EXCEPT !.pc = "done"]
    /\ UNCHANGED <<n_frames, batch_size, cap, cs, proc, written, result>>
    /\ UNCHANGED <<jobVars, runVars, renderVars>>

(* the main thread, lines 318-348 ****************************************)
\* where the main thread goes with the item it took: lines 323-327
AfterGetSwallows(item) ==
    CASE item.kind \in {"none", "exc"} -> [cs EXCEPT !.pc = "release"]
      [] OTHER -> [cs EXCEPT !.pc = "detect", !.item = item.frames, !.pos = 1]
AfterGet(item) ==
    CASE item.kind = "none" -> [cs EXCEPT !.pc = "release"]
      [] item.kind = "exc" -> [cs EXCEPT !.pc = "kill", !.exc = item.exc]
      [] OTHER -> [cs EXCEPT !.pc = "detect", !.item = item.frames, !.pos = 1]

\* line 322: frame_queue.get() blocks while the queue is empty
GetItem ==
    /\ cs.pc = "get"
    /\ frame_queue # <<>>
    /\ frame_queue' = Tail(frame_queue)
    /\ cs' = AfterGet(Head(frame_queue))
    /\ UNCHANGED <<n_frames, batch_size, cap, rd, put_log, proc, written, result>>
    /\ UNCHANGED <<jobVars, runVars, renderVars>>

\* the detection of a picture
DetOf(picture) == <<"det", picture>>
\* _write_batch line 352: frames = [f for _, f in buf]
Pictures(buf) == [i \in 1..Len(buf) |-> buf[i][2]]
\* the detections of the pictures, last picture first
DetectReversed(frames) == [i \in 1..Len(frames) |-> DetOf(frames[Len(frames) + 1 - i])]
\* PersonDetector.detect_union_xyxy_batch, lines 169-187: one detection for
\* each picture, in the order of the pictures
detect_union_xyxy_batch(frames) == [i \in 1..Len(frames) |-> DetOf(frames[i])]

\* _write_batch lines 352-353: one detection call for the batch, which
\* returns or raises; calls collects the arguments of the calls
Detect ==
    /\ cs.pc = "detect"
    /\ \/ cs' = [cs EXCEPT !.pc = "write", !.calls = Append(@, Pictures(cs.item)),
                            !.dets = detect_union_xyxy_batch(Pictures(cs.item))]
       \/ cs' = [cs EXCEPT !.pc = "kill", !.exc = DetectError,
                            !.calls = Append(@, Pictures(cs.item))]
    /\ UNCHANGED <<n_frames, batch_size, cap, rd, frame_queue, put_log, proc, written,
                   result>>
    /\ UNCHANGED <<jobVars, runVars, renderVars>>

\* the main thread after proc.stdin.write returned for the frame at cs.pos:
\* the next pair of zip(buf, dets), or lines 328-331 after the last one;
\* pairs collects the frames with the detections they were rendered with
AfterWrite ==
    IF cs.pos < Min(Len(cs.item), Len(cs.dets))
    THEN [cs EXCEPT !.pos = @ + 1,
                    !.pairs = Append(@, <<cs.item[cs.pos], cs.dets[cs.pos]>>)]
    ELSE [cs EXCEPT !.pc = "get", !.total = @ + Len(cs.item),
                    !.item = <<>>, !.pos = 0, !.dets = <<>>,
                    !.pairs = Append(@, <<cs.item[cs.pos], cs.dets[cs.pos]>>)]

\* _write_batch lines 354-359 for one pair of zip(buf, dets).  The write
\* goes through the buffer of proc.stdin: it returns with the bytes passed
\* on or with bytes left in the buffer; to an encoder that has exited it
\* returns when the bytes fit the buffer and raises BrokenPipeError when
\* they are flushed
WriteFrame ==
    /\ cs.pc = "write"
    /\ \/ /\ proc.state = "running"
          /\ written' = Append(written, cs.item[cs.pos])
          /\ cs' = AfterWrite
          /\ \E u \in BOOLEAN : proc' = [proc EXCEPT !.unflushed = u]
       \/ /\ proc.state # "running"
          /\ written' = Append(written, cs.item[cs.pos])
          /\ cs' = AfterWrite
          /\ proc' = [proc EXCEPT !.unflushed = TRUE]
       \/ /\ proc.state # "running"
          /\ cs' = [cs EXCEPT !.pc = "kill", !.exc = BrokenPipe]
          /\ UNCHANGED <<written, proc>>
    /\ UNCHANGED <<n_frames, batch_size, cap, rd, frame_queue, put_log, result>>
    /\ UNCHANGED <<jobVars, runVars, renderVars>>

\* the encoder exits on its own while its stdin is open, with exit code 0
\* (the command of lines 268-285 has -shortest) or with another one
EncoderDies ==
    /\ proc.state = "running"
    /\ proc.stdin_open
    /\ cs.pc \in {"get", "detect", "write", "release", "join", "close"}
    /\ \E rc \in {0, 1} : proc' = [proc EXCEPT !.state = "exited", !.returncode = rc]
    /\ UNCHANGED <<n_frames, batch_size, cap, rd, frame_queue, put_log, cs, written,
                   result>>
    /\ UNCHANGED <<jobVars, runVars, renderVars>>

\* line 333: proc.kill()
Kill ==
    /\ cs.pc = "kill"
    /\ proc' = [proc EXCEPT !.killed = TRUE]
    /\ cs' = [cs EXCEPT !.pc = "wait_killed"]
    /\ UNCHANGED <<n_frames, batch_size, cap, rd, frame_queue, put_log, written, result>>
    /\ UNCHANGED <<jobVars, runVars, renderVars>>

\* line 334: proc.wait() after the kill
WaitKilled ==
    /\ cs.pc = "wait_killed"
    /\ proc' = [proc EXCEPT !.state = "exited", !.waited = TRUE,
                            !.returncode = IF proc.state = "running" THEN -9 ELSE @]
    /\ cs' = [cs EXCEPT !.pc = "release"]
    /\ UNCHANGED <<n_frames, batch_size, cap, rd, frame_queue, put_log, written, result>>
    /\ UNCHANGED <<jobVars, runVars, renderVars>>

\* line 337: cap.release()
Release ==
    /\ cs.pc = "release"
    /\ cap' = [cap EXCEPT !.released = TRUE]
    /\ cs' = [cs EXCEPT !.pc = "join"]
    /\ UNCHANGED <<n_frames, batch_size, rd, frame_queue, put_log, proc, written, result>>
    /\ UNCHANGED <<jobVars, runVars, renderVars>>

\* lines 338-340: join the reader for at most five seconds, then leave the
\* finally block: the exception goes on to the caller, or the call goes on
\* to line 342
Join ==
    /\ cs.pc = "join"
    /\ IF cs.exc # "none"
       THEN /\ cs' = [cs EXCEPT !.pc = "raised", !.warned = (rd.pc # "done")]
            /\ result' = [kind |-> "raised", exc |-> cs.exc]
       ELSE /\ cs' = [cs EXCEPT !.pc = "close", !.warned = (rd.pc # "done")]
            /\ UNCHANGED result
    /\ UNCHANGED <<n_frames, batch_size, cap, rd, frame_queue, put_log, proc, written>>
    /\ UNCHANGED <<jobVars, runVars, renderVars>>

\* line 342: proc.stdin.close() flushes the buffer and closes the pipe; the
\* flush to an encoder that has exited raises BrokenPipeError, outside the
\* try of line 318, and lines 343-348 are not reached
CloseStdin ==
    /\ cs.pc = "close"
    /\ proc' = [proc EXCEPT !.stdin_open = FALSE, !.unflushed = FALSE]
    /\ IF proc.state = "exited" /\ proc.unflushed
       THEN /\ cs' = [cs EXCEPT !.pc = "raised", !.exc = BrokenPipe]
            /\ result' = [kind |-> "raised", exc |-> BrokenPipe]
       ELSE /\ cs' = [cs EXCEPT !.pc = "wait"]
            /\ UNCHANGED result
    /\ UNCHANGED <<n_frames, batch_size, cap, rd, frame_queue, put_log, written>>
    /\ UNCHANGED <<jobVars, runVars, renderVars>>

\* line 343: proc.wait(); the encoder ends with exit code 0 or not
WaitExit ==
    /\ cs.pc = "wait"
    /\ \E rc \in {0, 1} :
          proc' = [proc EXCEPT !.state = "exited", !.waited = TRUE,
                               !.returncode = IF proc.state = "running" THEN rc ELSE @]
    /\ cs' = [cs EXCEPT !.pc = "check"]
    /\ UNCHANGED <<n_frames, batch_size, cap, rd, frame_queue, put_log, written, result>>
    /\ UNCHANGED <<jobVars, runVars, renderVars>>

\* lines 344-348: a non-zero exit code raises
CheckExit ==
    /\ cs.pc = "check"
    /\ IF proc.returncode # 0
       THEN /\ cs' = [cs EXCEPT !.pc = "raised", !.exc = EncodeError]
            /\ result' = [kind |-> "raised", exc |-> EncodeError]
       ELSE /\ cs' = [cs EXCEPT !.pc = "returned"]
            /\ result' = [kind |-> "ok"]
    /\ UNCHANGED <<n_frames, batch_size, cap, rd, frame_queue, put_log, proc, written>>
    /\ UNCHANGED <<jobVars, runVars, renderVars>>

PipeNext ==
    \/ Open
    \/ CheckDimensions
    \/ StartReader
    \/ Popen
    \/ ReadFrame
    \/ ReadEnd
    \/ ReadRaises
    \/ PutBatch
    \/ PutLast
    \/ PutNone
    \/ PutExc
    \/ GetItem
    \/ Detect
    \/ WriteFrame
    \/ EncoderDies
    \/ Kill
    \/ WaitKilled
    \/ Release
    \/ Join
    \/ CloseStdin
    \/ WaitExit
    \/ CheckExit

\* no call of _process_video under way
PipeIdle ==
    /\ n_frames = 0
    /\ batch_size = 1
    /\ cap = [pos |-> 0, released |-> FALSE]
    /\ rd = RdNotStarted
    /\ frame_queue = <<>>
    /\ put_log = <<>>
    /\ cs = CsStart
    /\ proc = ProcNone
    /\ written = <<>>
    /\ result = [kind |-> "running"]

\* no request under way, an empty store
JobsIdle ==
    /\ JobInit
    /\ retention_days = 1
    /\ stalled_minutes = 0
    /\ output_bucket = <<>>

(***************************************************************************)
(* Part III: the crop window.                                              *)
(*                                                                         *)
(* Python floats are IEEE 754 binary64 numbers.  A float is modelled by    *)
(* its sign, its 53-bit significand and its exponent; every operation      *)
(* computes the exact result and rounds it to nearest, ties to even, as    *)
(* the hardware does.  Significands do not fit the integers of the model   *)
(* checker, so they are kept as sequences of limbs, least significant      *)
(* first, without leading zero limbs; the empty sequence is zero.          *)
(* Intermediate values are handed on as operator arguments.                *)
(***************************************************************************)
LimbBits == 15
LimbBase == 2^LimbBits
\* the bits of the significand of a binary64 number
Precision == 53

RECURSIVE BigNorm(_)
BigNorm(a) ==
    IF a = <<>> THEN <<>>
    ELSE IF a[Len(a)] = 0 THEN BigNorm(SubSeq(a, 1, Len(a) - 1))
    ELSE a

RECURSIVE BigFromInt(_)
BigFromInt(n) ==
    IF n = 0 THEN <<>> ELSE <<n % LimbBase>> \o BigFromInt(n \div LimbBase)

RECURSIVE BigToInt(_)
BigToInt(a) ==
    IF a = <<>> THEN 0 ELSE a[1] + LimbBase * BigToInt(Tail(a))

Limb(a, i) == IF i <= Len(a) THEN a[i] ELSE 0

RECURSIVE BigAddC(_, _, _)
BigAddC(a, b, c) ==
    IF a = <<>> /\ b = <<>> THEN (IF c = 0 THEN <<>> ELSE <<c>>)
    ELSE LET t == Limb(a, 1) + Limb(b, 1) + c IN
         <<t % LimbBase>> \o
         BigAddC(IF a = <<>> THEN <<>> ELSE Tail(a),
                 IF b = <<>> THEN <<>> ELSE Tail(b), t \div LimbBase)
BigAdd(a, b) == BigAddC(a, b, 0)

\* a - b for a >= b
RECURSIVE BigSubC(_, _, _)
BigSubC(a, b, c) ==
    IF a = <<>> THEN <<>>
    ELSE LET t == a[1] - Limb(b, 1) - c IN
         <<(t + LimbBase) % LimbBase>> \o
         BigSubC(Tail(a), IF b = <<>> THEN <<>> ELSE Tail(b),
                 IF t < 0 THEN 1 ELSE 0)
BigSub(a, b) == BigNorm(BigSubC(a, b, 0))

\* -1, 0 or 1 as a < b, a = b, a > b
RECURSIVE BigCmpFrom(_, _, _)
BigCmpFrom(a, b, i) ==
    IF i = 0 THEN 0
    ELSE IF a[i] < b[i] THEN -1
    ELSE IF a[i] > b[i] THEN 1
    ELSE BigCmpFrom(a, b, i - 1)
BigCmp(a, b) ==
    IF Len(a) < Len(b) THEN -1
    ELSE IF Len(a) > Len(b) THEN 1
    ELSE BigCmpFrom(a, b, Len(a))

\* a * k for 0 <= k < LimbBase
RECURSIVE BigMulSmallC(_, _, _)
BigMulSmallC(a, k, c) ==
    IF a = <<>> THEN (IF c = 0 THEN <<>> ELSE <<c>>)
    ELSE LET t == a[1] * k + c IN
         <<t % LimbBase>> \o BigMulSmallC(Tail(a), k, t \div LimbBase)
BigMulSmall(a, k) == IF k = 0 THEN <<>> ELSE BigMulSmallC(a, k, 0)

ShiftLimbs(a, n) == IF a = <<>> THEN <<>> ELSE [i \in 1..n |-> 0] \o a

RECURSIVE BigMul(_, _)
BigMul(a, b) ==
    IF b = <<>> THEN <<>>
    ELSE BigAdd(BigMulSmall(a, b[1]), ShiftLimbs(BigMul(a, Tail(b)), 1))

\* the quotient of a by d, 0 < d < LimbBase, from the most significant limb
RECURSIVE BigDivSmallR(_, _, _)
BigDivSmallR(a, d, r) ==
    IF a = <<>> THEN <<>>
    ELSE LET t == r * LimbBase + a[Len(a)] IN
         BigDivSmallR(SubSeq(a, 1, Len(a) - 1), d, t % d) \o <<t \div d>>
BigDivSmall(a, d) == BigNorm(BigDivSmallR(a, d, 0))

\* a * 2^k and floor(a / 2^k)
BigShl(a, k) ==
    ShiftLimbs(BigMulSmall(a, 2^(k % LimbBits)), k \div LimbBits)
BigShr(a, k) ==
    IF k \div LimbBits >= Len(a) THEN <<>>
    ELSE BigDivSmall(SubSeq(a, (k \div LimbBits) + 1, Len(a)), 2^(k % LimbBits))
\* a mod 2^k
BigLow(a, k) ==
    LET n == k \div LimbBits IN
    IF n >= Len(a) THEN a
    ELSE BigNorm(SubSeq(a, 1, n) \o <<a[n + 1] % (2^(k % LimbBits))>>)

RECURSIVE IntBitLen(_)
IntBitLen(n) == IF n = 0 THEN 0 ELSE 1 + IntBitLen(n \div 2)
BigBitLen(a) ==
    IF a = <<>> THEN 0 ELSE LimbBits * (Len(a) - 1) + IntBitLen(a[Len(a)])
BigOdd(a) == a # <<>> /\ a[1] % 2 = 1
BigOne == <<1>>

\* Long division and square root go bit by bit; the bits are worked off in
\* runs of ChunkBits so that no evaluation nests deeply.
ChunkBits == 16

\* floor(a / b) for b > 0, from the most significant bit of a: the bits
\* i down to stop + 1 of a, with quotient q and remainder r so far; the
\* result is the pair <<quotient, remainder>>
RECURSIVE BigDivModR(_, _, _, _, _, _)
\* the bit of weight 2^(i - 1) of a
BigBit(a, i) == (Limb(a, ((i - 1) \div LimbBits) + 1) \div (2^((i - 1) % LimbBits))) % 2
BigDivModNext(a, b, i, stop, q2, r3) ==
    IF Len(q2) + Len(r3) >= 0
    THEN BigDivModR(a, b, i - 1, stop, q2, r3)
    ELSE <<q2, r3>>
\* r2 is the remainder so far with the next bit of a appended
BigDivModBit(a, b, i, stop, q, r2) ==
    BigDivModNext(a, b, i, stop,
                  BigAdd(BigMulSmall(q, 2), IF BigCmp(r2, b) >= 0 THEN BigOne ELSE <<>>),
                  IF BigCmp(r2, b) >= 0 THEN BigSub(r2, b) ELSE r2)
BigDivModR(a, b, i, stop, q, r) ==
    IF i = stop THEN <<q, r>>
    ELSE BigDivModBit(a, b, i, stop, q,
                      BigAdd(BigMulSmall(r, 2), IF BigBit(a, i) = 1 THEN BigOne ELSE <<>>))
RECURSIVE BigDivModS(_, _, _, _, _)
BigDivModRun(a, b, stop, qr) ==
    IF Len(qr[1]) + Len(qr[2]) >= 0
    THEN BigDivModS(a, b, stop, qr[1], qr[2])
    ELSE qr
BigDivModTo(a, b, i, stop, q, r) ==
    BigDivModRun(a, b, stop, BigDivModR(a, b, i, stop, q, r))
BigDivModS(a, b, i, q, r) ==
    IF i = 0 THEN <<q, r>>
    ELSE BigDivModTo(a, b, i, IF i > ChunkBits THEN i - ChunkBits ELSE 0, q, r)
BigDivMod(a, b) == BigDivModS(a, b, BigBitLen(a), <<>>, <<>>)

\* floor(sqrt(a)), two bits of a at a time from the top: the pair
\* <<root, a - root^2>>
RECURSIVE BigSqrtR(_, _, _, _, _)
BigSqrtNext(a, i, stop, s2, r3) ==
    IF Len(s2) + Len(r3) >= 0
    THEN BigSqrtR(a, i - 1, stop, s2, r3)
    ELSE <<s2, r3>>
\* r2 is the remainder so far with the next two bits of a appended, t the
\* trial subtrahend 4 * s + 1
BigSqrtBit(a, i, stop, s, r2, t) ==
    BigSqrtNext(a, i, stop,
                BigAdd(BigMulSmall(s, 2), IF BigCmp(r2, t) >= 0 THEN BigOne ELSE <<>>),
                IF BigCmp(r2, t) >= 0 THEN BigSub(r2, t) ELSE r2)
BigSqrtR(a, i, stop, s, r) ==
    IF i = stop THEN <<s, r>>
    ELSE BigSqrtBit(a, i, stop, s,
                    BigAdd(BigMulSmall(r, 4), BigFromInt(2 * BigBit(a, 2 * i) + BigBit(a, 2 * i - 1))),
                    BigAdd(BigMulSmall(s, 4), BigOne))
RECURSIVE BigSqrtS(_, _, _, _)
BigSqrtRun(a, stop, sr) ==
    IF Len(sr[1]) + Len(sr[2]) >= 0
    THEN BigSqrtS(a, stop, sr[1], sr[2])
    ELSE sr
BigSqrtTo(a, i, stop, s, r) == BigSqrtRun(a, stop, BigSqrtR(a, i, stop, s, r))
BigSqrtS(a, i, s, r) ==
    IF i = 0 THEN <<s, r>>
    ELSE BigSqrtTo(a, i, IF i > ChunkBits THEN i - ChunkBits ELSE 0, s, r)
BigSqrt(a) == BigSqrtS(a, (BigBitLen(a) + 1) \div 2, <<>>, <<>>)

(* binary64 ***************************************************************)
FZero == [neg |-> FALSE, m |-> <<>>, e |-> 0]

\* the float a * 2^e for 0 < a < 2^Precision, which needs no rounding
FExact(neg, a, e) ==
    [neg |-> neg, m |-> BigShl(a, Precision - BigBitLen(a)),
     e |-> e - (Precision - BigBitLen(a))]
\* q has Precision bits, or one more after a carry out of the top bit
FCarry(neg, q, e) ==
    IF BigBitLen(q) > Precision
    THEN [neg |-> neg, m |-> BigShr(q, 1), e |-> e + 1]
    ELSE [neg |-> neg, m |-> q, e |-> e]
\* q is the significand cut to Precision bits, c says how the bits cut off
\* compare to half a unit of the last place
FTies(neg, q, e, c, sticky) ==
    FCarry(neg, IF c > 0 \/ (c = 0 /\ (sticky \/ BigOdd(q))) THEN BigAdd(q, BigOne) ELSE q, e)
\* cut the k >= 1 low bits of a
FCut(neg, a, e, sticky, k) ==
    FTies(neg, BigShr(a, k), e + k, BigCmp(BigLow(a, k), BigShl(BigOne, k - 1)), sticky)
\* the float nearest to a * 2^e, ties to even; with sticky the exact value
\* lies strictly between a * 2^e and (a + 1) * 2^e
FRound(neg, a, e, sticky) ==
    IF a = <<>> THEN FZero
    ELSE IF BigBitLen(a) <= Precision THEN FExact(neg, a, e)
    ELSE FCut(neg, a, e, sticky, BigBitLen(a) - Precision)

\* float(n) for an int n, which is exact below 2^Precision
FInt(n) ==
    IF n = 0 THEN FZero
    ELSE IF n > 0 THEN FExact(FALSE, BigFromInt(n), 0)
    ELSE FExact(TRUE, BigFromInt(-n), 0)

FNeg(x) == IF x.m = <<>> THEN x ELSE [x EXCEPT !.neg = ~x.neg]

\* -1, 0, 1 as |x| < |y|, |x| = |y|, |x| > |y|
FCmpAbs(x, y) ==
    IF x.m = <<>> THEN (IF y.m = <<>> THEN 0 ELSE -1)
    ELSE IF y.m = <<>> THEN 1
    ELSE IF x.e < y.e THEN -1
    ELSE IF x.e > y.e THEN 1
    ELSE BigCmp(x.m, y.m)
FCmp(x, y) ==
    IF x.neg /\ ~y.neg THEN -1
    ELSE IF ~x.neg /\ y.neg THEN 1
    ELSE IF x.neg THEN FCmpAbs(y, x)
    ELSE FCmpAbs(x, y)
FLess(x, y) == FCmp(x, y) < 0

\* the sum of the magnitudes a and b at the common exponent e, signed
\* as x and y are
FAddMag(xneg, yneg, a, b, e) ==
    FRound(IF xneg = yneg \/ BigCmp(a, b) >= 0 THEN xneg ELSE yneg,
           IF xneg = yneg THEN BigAdd(a, b)
           ELSE IF BigCmp(a, b) >= 0 THEN BigSub(a, b) ELSE BigSub(b, a),
           e, FALSE)
FAddAt(x, y, e) == FAddMag(x.neg, y.neg, BigShl(x.m, x.e - e), BigShl(y.m, y.e - e), e)
\* x + y
FAdd(x, y) ==
    IF x.m = <<>> THEN y
    ELSE IF y.m = <<>> THEN x
    ELSE FAddAt(x, y, IF x.e < y.e THEN x.e ELSE y.e)
FSub(x, y) == FAdd(x, FNeg(y))

FMul(x, y) ==
    IF x.m = <<>> \/ y.m = <<>> THEN FZero
    ELSE FRound(x.neg # y.neg, BigMul(x.m, y.m), x.e + y.e, FALSE)

\* the float of a quotient or root qr[1] * 2^e whose remainder is qr[2]
FRoundRem(neg, qr, e) == FRound(neg, qr[1], e, qr[2] # <<>>)

\* x / y for y # 0: 55 or more quotient bits and the remainder as sticky bit
FDiv(x, y) ==
    IF x.m = <<>> THEN FZero
    ELSE FRoundRem(x.neg # y.neg, BigDivMod(BigShl(x.m, Precision + 2), y.m),
                   x.e - y.e - (Precision + 2))

\* math.sqrt(x) for x >= 0, the significand shifted by sh bits so that the
\* exponent is even
FSqrtAt(x, sh) == FRoundRem(FALSE, BigSqrt(BigShl(x.m, sh)), (x.e - sh) \div 2)
FSqrt(x) ==
    IF x.m = <<>> THEN FZero
    ELSE FSqrtAt(x, IF x.e % 2 = 0 THEN Precision + 3 ELSE Precision + 2)

\* x / 2.0
FHalf(x) == IF x.m = <<>> THEN x ELSE [x EXCEPT !.e = @ - 1]

\* int(x): truncation toward zero
FTrunc(x) ==
    IF x.m = <<>> THEN 0
    ELSE (IF x.neg THEN -1 ELSE 1) *
         BigToInt(IF x.e >= 0 THEN BigShl(x.m, x.e) ELSE BigShr(x.m, -x.e))

\* float("n/d") for a decimal literal worth n / d
FRatio(n, d) == FDiv(FInt(n), FInt(d))

(* the crop window, video_cropper.py lines 361-430 ************************)
IntMax(a, b) == IF b > a THEN b ELSE a
IntMin(a, b) == IF b < a THEN b ELSE a
\* int(max(0, v)) and int(min(n, v)) for a float v: max and min return their
\* first argument unless the second is strictly beyond it
TruncMax0(v) == IF FLess(FZero, v) THEN FTrunc(v) ELSE 0
TruncMin(n, v) == IF FLess(v, FInt(n)) THEN FTrunc(v) ELSE n

\* det is None
NoDet == <<>>

\* lines 376-379: the box grown by the padding, cut at the frame
Padded(det, w, h, pad_x, pad_y) ==
    <<IntMax(0, det[1] - pad_x), IntMax(0, det[2] - pad_y),
      IntMin(w, det[3] + pad_x), IntMin(h, det[4] + pad_y)>>
\* lines 370-379: pad the detection box by padding_ratio of its sides
PadBox(det, w, h, c) ==
    Padded(det, w, h,
           FTrunc(FMul(c.padding_ratio, FInt(IntMax(1, det[3] - det[1])))),
           FTrunc(FMul(c.padding_ratio, FInt(IntMax(1, det[4] - det[2])))))

\* lines 392-395, 409-410 and 414-415: the span of half-length half around
\* the centre c on an axis of length n
SpanLo(centre, half) == TruncMax0(FSub(centre, half))
SpanHi(n, centre, half) == TruncMin(n, FAdd(centre, half))
\* (a + b) / 2.0
Centre(a, b) == FHalf(FInt(a + b))

\* lines 385-395: the square of side 2 * half around the centre of the box
SquareAround(box, w, h, half) ==
    <<SpanLo(Centre(box[1], box[3]), half), SpanLo(Centre(box[2], box[4]), half),
      SpanHi(w, Centre(box[1], box[3]), half), SpanHi(h, Centre(box[2], box[4]), half)>>
\* lines 383-395
GrownTo(box, w, h, min_area) ==
    IF FLess(FInt(IntMax(1, (box[3] - box[1]) * (box[4] - box[2]))), min_area)
    THEN SquareAround(box, w, h, FHalf(FSqrt(min_area)))
    ELSE box
\* lines 381-395: a box of less than the minimum area becomes a square of
\* that area around its centre, cut at the frame
MinAreaBox(box, w, h, c) == GrownTo(box, w, h, FMul(c.min_crop_ratio, FInt(w * h)))

\* lines 406-410: a box too wide gets the height cw / target_aspect
Heightened(box, h, half_h) ==
    <<box[1], SpanLo(Centre(box[2], box[4]), half_h),
      box[3], SpanHi(h, Centre(box[2], box[4]), half_h)>>
\* lines 411-415: any other box gets the width ch * target_aspect
Widened(box, w, half_w) ==
    <<SpanLo(Centre(box[1], box[3]), half_w), box[2],
      SpanHi(w, Centre(box[1], box[3]), half_w), box[4]>>
\* lines 399-416 for the box of width cw and height ch
Shaped(box, w, h, target_aspect, cw, ch) ==
    IF FLess(target_aspect, FDiv(FInt(cw), FInt(ch)))
    THEN Heightened(box, h, FHalf(FDiv(FInt(cw), target_aspect)))
    ELSE Widened(box, w, FHalf(FMul(FInt(ch), target_aspect)))
\* lines 397-416: grow the height of a box that is too wide, the width of
\* any other, to the frame's aspect, cut at the frame
AspectBox(box, w, h, c) ==
    IF ~c.keep_aspect THEN box
    ELSE Shaped(box, w, h, FDiv(FInt(w), FInt(h)),
                IntMax(1, box[3] - box[1]), IntMax(1, box[4] - box[2]))

\* lines 428-429: the far corner at least one pixel beyond the near one
ClampFar(x1, y1, box, w, h) ==
    <<x1, y1, IntMax(x1 + 1, IntMin(w, box[3])), IntMax(y1 + 1, IntMin(h, box[4]))>>
\* _clamp_box without the max(x1 + 1, ...) of lines 428-429 that keeps one
\* pixel of width and height
ClampIntoFrame(box, w, h) ==
    <<IntMax(0, IntMin(w - 1, box[1])), IntMax(0, IntMin(h - 1, box[2])),
      IntMin(w, box[3]), IntMin(h, box[4])>>
\* lines 423-430
_clamp_box(box, w, h) ==
    ClampFar(IntMax(0, IntMin(w - 1, box[1])), IntMax(0, IntMin(h - 1, box[2])), box, w, h)

\* lines 397-419: the window handed to the smoother, from the window the
\* minimum-area step left
RawFrom(grown, w, h, c) == _clamp_box(AspectBox(grown, w, h, c), w, h)
\* lines 368-419: the window handed to the smoother
RawWindow(det, w, h, c) == RawFrom(MinAreaBox(PadBox(det, w, h, c), w, h, c), w, h, c)

FloatBox(box) == [i \in 1..4 |-> FInt(box[i])]
TruncBox(fbox) == [i \in 1..4 |-> FTrunc(fbox[i])]

\* CropWindowSmoother: _prev is None
NoPrev == <<>>
\* lines 205-208: alpha * prev + (1 - alpha) * box, coordinate by coordinate
Smoothed(alpha, prev, fbox) ==
    [i \in 1..4 |-> FAdd(FMul(alpha, prev[i]), FMul(FSub(FInt(1), alpha), fbox[i]))]
\* CropWindowSmoother.update: what it returns, which is also the new _prev
update(alpha, prev, fbox) ==
    IF prev = NoPrev THEN fbox ELSE Smoothed(alpha, prev, fbox)

\* line 421: the smoothed window as _compute_crop returns it
Cropped(s, w, h) == _clamp_box(TruncBox(s), w, h)
\* _compute_crop on a smoother whose _prev is prev: the window returned
\* and the smoother's _prev afterwards
Smooth(s, w, h) == [crop |-> Cropped(s, w, h), prev |-> s]
_compute_crop(det, w, h, c, prev) ==
    IF det = NoDet
    THEN [crop |-> <<0, 0, w, h>>, prev |-> prev]
    ELSE Smooth(update(c.smooth_alpha, prev, FloatBox(RawWindow(det, w, h, c))), w, h)

\* CropperConfig from the decimal literals of its fields, in hundredths
Config(padding, min_crop, alpha, keep) ==
    [padding_ratio |-> FRatio(padding, 100), min_crop_ratio |-> FRatio(min_crop, 100),
     smooth_alpha |-> FRatio(alpha, 100), keep_aspect |-> keep]

(* _crop_and_letterbox, lines 432-458 *************************************)
\* min(a, b) on floats: the first argument unless the second is smaller
FMin(a, b) == IF FLess(b, a) THEN b ELSE a
\* the length of the slice lo:hi of an axis of length n
SliceAt(i, n) == IF i < 0 THEN IntMax(i + n, 0) ELSE IntMin(i, n)
SliceLen(lo, hi, n) == IntMax(0, SliceAt(hi, n) - SliceAt(lo, n))
\* an array of this length is assigned to a slice of that length
Assignable(len, slice) == len = slice \/ len = 1

\* no call of _crop_and_letterbox yet
NotShown == [kind |-> "none", crop |-> <<>>, w |-> 0, h |-> 0, cw |-> 0, ch |-> 0,
             scale |-> FZero, new_w |-> 0, new_h |-> 0, x_off |-> 0, y_off |-> 0]
\* lines 441-442: the frame itself is returned
ShownFrame(crop, fw, fh, cw, ch) ==
    [NotShown EXCEPT !.kind = "frame", !.crop = crop, !.w = fw, !.h = fh,
                     !.cw = cw, !.ch = ch]
\* lines 447-448
CappedScale(scale, upscale) ==
    IF ~FLess(FInt(1), upscale) THEN FMin(scale, FInt(1)) ELSE scale
\* the scale that fits the width of the canvas, whatever the height
ScaleByWidth(cw, ch, out_w, out_h, upscale) ==
    CappedScale(FDiv(FInt(out_w), FInt(cw)), upscale)
\* lines 446-448
Scale(cw, ch, out_w, out_h, upscale) ==
    CappedScale(FMin(FDiv(FInt(out_w), FInt(cw)), FDiv(FInt(out_h), FInt(ch))), upscale)
\* lines 454-458: the resized crop is written into the middle of a black
\* canvas of the output size, which numpy refuses when the shapes differ
Placed(crop, cw, ch, out_w, out_h, scale, new_w, new_h, x_off, y_off) ==
    [kind |-> IF /\ Assignable(new_w, SliceLen(x_off, x_off + new_w, out_w))
                 /\ Assignable(new_h, SliceLen(y_off, y_off + new_h, out_h))
              THEN "canvas" ELSE "raised",
     crop |-> crop, w |-> out_w, h |-> out_h, cw |-> cw, ch |-> ch, scale |-> scale,
     new_w |-> new_w, new_h |-> new_h, x_off |-> x_off, y_off |-> y_off]
\* lines 455-456
Centred(crop, cw, ch, out_w, out_h, scale, new_w, new_h) ==
    Placed(crop, cw, ch, out_w, out_h, scale, new_w, new_h,
           (out_w - new_w) \div 2, (out_h - new_h) \div 2)
\* lines 450-452
Resized(crop, cw, ch, out_w, out_h, scale) ==
    Centred(crop, cw, ch, out_w, out_h, scale,
            IntMax(1, FTrunc(FMul(FInt(cw), scale))),
            IntMax(1, FTrunc(FMul(FInt(ch), scale))))
\* lines 441-458, from the shape of frame[y1:y2, x1:x2]
Letterbox(crop, fw, fh, cw, ch, out_w, out_h, upscale) ==
    IF cw * ch = 0
    THEN ShownFrame(crop, fw, fh, cw, ch)
    ELSE Resized(crop, cw, ch, out_w, out_h, Scale(cw, ch, out_w, out_h, upscale))
\* _crop_and_letterbox(frame, crop, (out_w, out_h)) on a frame of width fw and
\* height fh
_crop_and_letterbox(fw, fh, crop, out_w, out_h, upscale) ==
    Letterbox(crop, fw, fh, SliceLen(crop[1], crop[3], fw), SliceLen(crop[2], crop[4], fh),
              out_w, out_h, upscale)

\* _write_batch line 356: the frame is rendered at the size of the stream,
\* which is the size of its frames
Render(crop) ==
    /\ shown = NotShown
    /\ shown' = _crop_and_letterbox(frame_w, frame_h, crop, frame_w, frame_h, max_upscale)
    /\ UNCHANGED max_upscale
    /\ UNCHANGED <<jobVars, pipeVars, runVars>>

\* CropperConfig(): max_upscale of line 60, and no frame rendered yet
RenderIdle ==
    /\ max_upscale = FInt(1)
    /\ shown = NotShown

(* VideoCropper.run, lines 227-250 ****************************************)
\* calls of run explored in a behaviour
MaxRuns == 2
\* frames a call of run sends through _compute_crop
MaxCropFrames == 3
\* the request threads of the worker process that call run on the singleton
Threads == {"t1", "t2"}

ThreadIdle == [pc |-> "idle", run |-> 0, uri |-> <<>>, tmp |-> 0, frames |-> 0,
               det |-> NoDet, grown |-> <<>>, raw |-> <<>>, obj |-> 0,
               got |-> NoPrev, seen |-> {},
               exc |-> "none", out |-> <<>>]
\* a CropWindowSmoother just constructed by call r of run (r = 0: by
\* __init__); fed collects the calls whose windows went into _prev
NewSmoother(r) == [prev |-> NoPrev, owner |-> r, fed |-> {}]
NoCrop == [run |-> 0, det |-> NoDet, after_min |-> <<>>, raw |-> <<>>,
           owner |-> 0, fed |-> {}, prev_in |-> NoPrev, prev_out |-> NoPrev,
           crop |-> <<>>]

\* CropperConfig(): the defaults of lines 56-59
DefaultConfig == Config(12, 35, 85, TRUE)

\* str(e) of the exceptions of io.download and io.upload: the DownloadError
\* of line 115 and the ProcessingError of line 137, and the exceptions of
\* the storage client and of requests, which are no ProcessingError
ErrDownload == "Unsupported URI scheme: "
ErrOutputScheme == "Output URI must be gs://"
ErrUpload == "upload failed"

\* a worker request thread calls cropper.run(uri)
StartRun(t, uri) ==
    /\ inv[t].pc = "idle"
    /\ runs < MaxRuns
    /\ runs' = runs + 1
    /\ inv' = [inv EXCEPT ![t] = [ThreadIdle EXCEPT !.pc = "reset", !.run = runs + 1,
                                                   !.uri = uri]]
    /\ UNCHANGED <<frame_w, frame_h, cfg, heap, cur, dirs, last>>
    /\ UNCHANGED <<jobVars, pipeVars, renderVars>>

\* line 229: self.smoother = CropWindowSmoother(...)
ResetSmoother(t) ==
    /\ inv[t].pc = "reset"
    /\ heap' = Append(heap, NewSmoother(inv[t].run))
    /\ cur' = Len(heap) + 1
    /\ inv' = [inv EXCEPT ![t].pc = "mkdtemp"]
    /\ UNCHANGED <<frame_w, frame_h, cfg, dirs, runs, last>>
    /\ UNCHANGED <<jobVars, pipeVars, renderVars>>

\* line 231: tempfile.mkdtemp
MkDtemp(t) ==
    /\ inv[t].pc = "mkdtemp"
    /\ dirs' = dirs \cup {inv[t].run}
    /\ inv' = [inv EXCEPT ![t].pc = "derive", ![t].tmp = inv[t].run]
    /\ UNCHANGED <<frame_w, frame_h, cfg, heap, cur, runs, last>>
    /\ UNCHANGED <<jobVars, pipeVars, renderVars>>

\* lines 235-236, before the try statement: an exception of
\* output_uri_for_input leaves run at once
Derived(t, o) ==
    inv' = IF o.ok
           THEN [inv EXCEPT ![t].pc = "download", ![t].out = o.uri]
           ELSE [inv EXCEPT ![t].pc = "raised", ![t].exc = "processing_error",
                            ![t].out = <<o.error>>]
Derive(t) ==
    /\ inv[t].pc = "derive"
    /\ Derived(t, output_uri_for_input(inv[t].uri, output_bucket))
    /\ UNCHANGED <<frame_w, frame_h, cfg, heap, cur, dirs, runs, last>>
    /\ UNCHANGED <<jobVars, pipeVars, renderVars>>

\* a stage inside the try statement raises: control goes to the finally
\* clause with the exception pending
Raise(t, kind, msg) ==
    inv' = [inv EXCEPT ![t].pc = "rmtree", ![t].exc = kind, ![t].out = msg]

\* line 243, io.download of lines 91-115: a gs:// or http(s):// source is
\* fetched, which returns or raises an exception of the client; any other
\* URI raises DownloadError, a ProcessingError
Download(t) ==
    /\ inv[t].pc = "download"
    /\ IF ValidScheme(inv[t].uri)
       THEN \/ inv' = [inv EXCEPT ![t].pc = "process"]
            \/ Raise(t, "exception", <<ErrOther>>)
       ELSE Raise(t, "processing_error", <<ErrDownload>> \o inv[t].uri)
    /\ UNCHANGED <<frame_w, frame_h, cfg, heap, cur, dirs, runs, last>>
    /\ UNCHANGED <<jobVars, pipeVars, renderVars>>

\* lines 368-420 for a detection: the window is derived from the one the
\* minimum-area step left, self.smoother is looked up and update reads
\* its _prev
CropDerive(t, det, grown) ==
    inv' = [inv EXCEPT ![t].pc = "smooth", ![t].det = det, ![t].grown = grown,
                       ![t].raw = RawFrom(grown, frame_w, frame_h, cfg),
                       ![t].obj = cur, ![t].got = heap[cur].prev,
                       ![t].seen = heap[cur].fed]

\* the smoother's _prev after an update with the full frame
FullFrameFed(t) ==
    update(cfg.smooth_alpha, heap[cur].prev, FloatBox(<<0, 0, frame_w, frame_h>>))
\* _compute_crop that hands the full frame of a frame without detection to
\* the smoother
CropReadFeeds(t, det) ==
    /\ inv[t].pc = "process"
    /\ inv[t].frames < MaxCropFrames
    /\ IF det = NoDet
       THEN /\ inv' = [inv EXCEPT ![t].frames = @ + 1]
            /\ heap' = [heap EXCEPT ![cur].prev = FullFrameFed(t)]
            /\ last' = [NoCrop EXCEPT !.run = inv[t].run,
                                      !.crop = <<0, 0, frame_w, frame_h>>,
                                      !.prev_in = heap[cur].prev,
                                      !.prev_out = FullFrameFed(t)]
       ELSE /\ CropDerive(t, det, MinAreaBox(PadBox(det, frame_w, frame_h, cfg),
                                             frame_w, frame_h, cfg))
            /\ UNCHANGED <<heap, last>>
    /\ UNCHANGED <<frame_w, frame_h, cfg, cur, dirs, runs>>
    /\ UNCHANGED <<jobVars, pipeVars, renderVars>>
\* _compute_crop for one frame, lines 364-420: without a detection the full
\* frame is returned and the smoother is left alone; last notes the
\* smoother's _prev as the call found it and as it left it
CropRead(t, det) ==
    /\ inv[t].pc = "process"
    /\ inv[t].frames < MaxCropFrames
    /\ IF det = NoDet
       THEN /\ inv' = [inv EXCEPT ![t].frames = @ + 1]
            /\ last' = [NoCrop EXCEPT !.run = inv[t].run,
                                      !.crop = <<0, 0, frame_w, frame_h>>,
                                      !.prev_in = heap[cur].prev,
                                      !.prev_out = heap[cur].prev]
       ELSE /\ CropDerive(t, det, MinAreaBox(PadBox(det, frame_w, frame_h, cfg),
                                             frame_w, frame_h, cfg))
            /\ UNCHANGED last
    /\ UNCHANGED <<frame_w, frame_h, cfg, heap, cur, dirs, runs>>
    /\ UNCHANGED <<jobVars, pipeVars, renderVars>>

\* lines 208-210 and 421: update stores the smoothed window s and returns
\* it, _compute_crop truncates and clamps it
CropStore(t, s) ==
    /\ heap' = [heap EXCEPT ![inv[t].obj].prev = s,
                            ![inv[t].obj].fed = @ \cup {inv[t].run}]
    /\ last' = [run |-> inv[t].run, det |-> inv[t].det,
                after_min |-> inv[t].grown, raw |-> inv[t].raw,
                owner |-> heap[inv[t].obj].owner, fed |-> inv[t].seen,
                prev_in |-> inv[t].got, prev_out |-> s,
                crop |-> Cropped(s, frame_w, frame_h)]
    /\ inv' = [inv EXCEPT ![t].pc = "process", ![t].frames = @ + 1,
                          ![t].det = NoDet, ![t].grown = <<>>, ![t].raw = <<>>,
                          ![t].obj = 0, ![t].got = NoPrev, ![t].seen = {}]
CropWrite(t) ==
    /\ inv[t].pc = "smooth"
    /\ CropStore(t, update(cfg.smooth_alpha, inv[t].got, FloatBox(inv[t].raw)))
    /\ UNCHANGED <<frame_w, frame_h, cfg, cur, dirs, runs>>
    /\ UNCHANGED <<jobVars, pipeVars, renderVars>>

\* line 244: _process_video returns after the last frame, or raises a
\* ProcessingError (the input does not open, has no dimensions, the encoder
\* fails) or another exception (of the reader, the detector, the pipe to the
\* encoder or its start)
ProcessEnd(t) ==
    /\ inv[t].pc = "process"
    /\ \/ inv' = [inv EXCEPT ![t].pc = "upload"]
       \/ \E e \in ProcessingErrors : Raise(t, "processing_error", <<e>>)
       \/ \E e \in OtherErrors : Raise(t, "exception", <<e>>)
    /\ UNCHANGED <<frame_w, frame_h, cfg, heap, cur, dirs, runs, last>>
    /\ UNCHANGED <<jobVars, pipeVars, renderVars>>

\* line 245, io.upload of lines 135-141: an output URI that is not gs://
\* raises ProcessingError; the upload returns or raises an exception of the
\* storage client
Upload(t) ==
    /\ inv[t].pc = "upload"
    /\ IF StartsWith(inv[t].out, GsPrefix)
       THEN \/ inv' = [inv EXCEPT ![t].pc = "rmtree"]
            \/ Raise(t, "exception", <<ErrUpload>>)
       ELSE Raise(t, "processing_error", <<ErrOutputScheme>>)
    /\ UNCHANGED <<frame_w, frame_h, cfg, heap, cur, dirs, runs, last>>
    /\ UNCHANGED <<jobVars, pipeVars, renderVars>>

\* lines 249-250: the finally clause deletes the scratch directory, then run
\* returns meta or the pending exception goes on
RmTree(t) ==
    /\ inv[t].pc = "rmtree"
    /\ dirs' = dirs \ {inv[t].tmp}
    /\ inv' = [inv EXCEPT ![t].pc = IF inv[t].exc = "none" THEN "returned" ELSE "raised"]
    /\ UNCHANGED <<frame_w, frame_h, cfg, heap, cur, runs, last>>
    /\ UNCHANGED <<jobVars, pipeVars, renderVars>>

\* the request that called run ends
EndRun(t) ==
    /\ inv[t].pc \in {"returned", "raised"}
    /\ inv' = [inv EXCEPT ![t] = ThreadIdle]
    /\ UNCHANGED <<frame_w, frame_h, cfg, heap, cur, dirs, runs, last>>
    /\ UNCHANGED <<jobVars, pipeVars, renderVars>>

\* the instance get_cropper built, line 225, and no call of run yet
RunIdle ==
    /\ frame_w = 10
    /\ frame_h = 10
    /\ cfg = DefaultConfig
    /\ heap = <<NewSmoother(0)>>
    /\ cur = 1
    /\ inv = [t \in Threads |-> ThreadIdle]
    /\ dirs = {}
    /\ runs = 0
    /\ last = NoCrop

vars == <<jobVars, pipeVars, runVars, renderVars>>

Init == JobInit /\ output_bucket = <<"o">> /\ PipeIdle /\ RunIdle /\ RenderIdle
Next == JobNext
Spec == Init /\ [][Next]_vars

InitPipe == PipeInit /\ JobsIdle /\ RunIdle /\ RenderIdle
SpecPipe == InitPipe /\ [][PipeNext]_vars


(* the calls of run on the worker's singleton *****************************)
\* the detections of the frames of a call of run: none, or this box
RunDets == {NoDet, <<4, 4, 6, 6>>}

\* frames each call of run sends through _compute_crop when the calls of
\* two threads are followed
MaxRunFrames == 2

\* OUTPUT_BUCKET is not set
InitRun == JobsIdle /\ PipeIdle /\ RunIdle /\ RenderIdle
NextRun ==
    \E t \in Threads :
        \/ \E uri \in Uris : StartRun(t, uri)
        \/ ResetSmoother(t)
        \/ MkDtemp(t)
        \/ Derive(t)
        \/ Download(t)
        \/ \E det \in RunDets : inv[t].frames < MaxRunFrames /\ CropRead(t, det)
        \/ CropWrite(t)
        \/ ProcessEnd(t)
        \/ Upload(t)
        \/ RmTree(t)
        \/ EndRun(t)
SpecRun == InitRun /\ [][NextRun]_vars

\* how the calls of run under way or just ended left run
Exited(t) == inv[t].pc \in {"returned", "raised"}

\* C14 (as claimed): by the time a call of run has returned or raised, the
\* scratch directory it created is deleted.
C14_ScratchDeleted ==
    \A t \in Threads : Exited(t) /\ inv[t].tmp # 0 => inv[t].tmp \notin dirs

\* C16 (as claimed): the window of every detection is smoothed by the
\* smoother its own call of run constructed, against windows of that call
\* only.
C16_NoBleed ==
    last.det # NoDet => last.owner = last.run /\ last.fed \subseteq {last.run}

(* the crop windows of one call of run ************************************)
\* frame sizes, width and height
FrameSizes == {<<10, 10>>, <<16, 9>>}
\* the default configuration, one without padding and with a small minimum
\* area, one that leaves the detection box as it is
CropConfigs == {DefaultConfig, Config(0, 5, 30, TRUE), Config(0, 0, 30, FALSE)}
\* the detections of a frame of width w and height h: none, or a box inside
\* the frame
DetsIn(w, h) ==
    {NoDet, <<4, 4, 6, 6>>, <<3, 3, 7, 7>>, <<2, 2, 3, 3>>, <<5, 5, 5, 5>>,
     <<0, 0, 1, h>>, <<w - 3, 1, w, 4>>}

\* call 1 of run has reset the smoother, made its scratch directory and
\* downloaded the source, and is about to process the frames
InitCrop ==
    /\ JobsIdle
    /\ PipeIdle
    /\ RenderIdle
    /\ \E size \in FrameSizes : frame_w = size[1] /\ frame_h = size[2]
    /\ cfg \in CropConfigs
    /\ heap = <<NewSmoother(0), NewSmoother(1)>>
    /\ cur = 2
    /\ inv = [t \in Threads |->
                IF t = "t1"
                THEN [ThreadIdle EXCEPT !.pc = "process", !.run = 1, !.uri = UriGs,
                                        !.tmp = 1,
                                        !.out = output_uri_for_input(UriGs, <<>>).uri]
                ELSE ThreadIdle]
    /\ dirs = {1}
    /\ runs = 1
    /\ last = NoCrop
NextCrop ==
    \/ \E det \in DetsIn(frame_w, frame_h) : CropRead("t1", det)
    \/ CropWrite("t1")
SpecCrop == InitCrop /\ [][NextCrop]_vars

Width(box) == box[3] - box[1]
Height(box) == box[4] - box[2]
InFrame(box) ==
    /\ box \in Int \X Int \X Int \X Int
    /\ 0 <= box[1] /\ box[1] < box[3] /\ box[3] <= frame_w
    /\ 0 <= box[2] /\ box[2] < box[4] /\ box[4] <= frame_h
Abs(n) == IF n < 0 THEN -n ELSE n

\* C17: every window _compute_crop returns has integer coordinates with
\* 0 <= x1 < x2 <= w and 0 <= y1 < y2 <= h, with or without a detection and
\* whatever the smoother held.
C17_WindowInFrame == last.run # 0 => InFrame(last.crop)
\* a second detection smoothed against a different first window, and the
\* window returned is in the frame
C17_Witness ==
    /\ last.det # NoDet
    /\ last.prev_in # NoPrev
    /\ last.prev_in # FloatBox(last.raw)
    /\ last.prev_out # FloatBox(last.raw)
    /\ InFrame(last.crop)

\* C18 (as claimed): the window the minimum-area step leaves has an area
\* of min_crop_ratio times the frame area or more.
C18_MinArea ==
    last.det # NoDet =>
        ~FLess(FInt(Width(last.after_min) * Height(last.after_min)),
               FMul(cfg.min_crop_ratio, FInt(frame_w * frame_h)))

\* C19 (as claimed): with keep_aspect the window handed to the smoother
\* has the frame's aspect up to one pixel on each of its edges: its width
\* and height are within two pixels of a width and height in the ratio
\* frame_w : frame_h.
C19_AspectKept ==
    last.det # NoDet /\ cfg.keep_aspect =>
        Abs(Width(last.raw) * frame_h - Height(last.raw) * frame_w)
            <= 2 * (frame_w + frame_h)

\* C20 (as claimed): the first update of a fresh smoother returns and
\* stores its input; an update with the window the smoother already holds
\* returns that window and leaves it stored.
C20_Idempotent ==
    last.det # NoDet =>
        /\ last.prev_in = NoPrev => last.prev_out = FloatBox(last.raw)
        /\ last.prev_in = FloatBox(last.raw) => last.prev_out = FloatBox(last.raw)

\* a call of _compute_crop by the thread of SpecCrop returns
CropReturns == inv'["t1"].frames = inv["t1"].frames + 1
C26_FullFrame ==
    (last.run # 0 /\ last.det = NoDet) =>
        /\ last.crop = <<0, 0, frame_w, frame_h>>
        /\ last.prev_out = last.prev_in
        /\ inv["t1"].pc = "process" => heap[cur].prev = last.prev_in
C26_Kept ==
    CropReturns =>
        /\ cur' = cur
        /\ last'.prev_in = heap[cur].prev
        /\ last.run # 0 => last'.prev_in = last.prev_out
        /\ last'.det = NoDet => heap' = heap
        /\ last'.det # NoDet => last'.prev_out # NoPrev /\ heap'[cur].prev = last'.prev_out
\* C26: a frame without detection gets the full frame (0, 0, w, h) and the
\* smoother's _prev stays what it was; every call finds in _prev what the
\* call before it left there, so a detection after frames without one is
\* smoothed against the window of the last detection, and _prev is not reset
\* between the frames of a job.
C26_NoDetection == []C26_FullFrame /\ [][C26_Kept]_vars
\* the second frame has no detection, the first had one: the full frame is
\* returned and the smoother keeps the first frame's window
C26_Witness ==
    /\ inv["t1"].frames = 2
    /\ last.det = NoDet
    /\ last.crop = <<0, 0, frame_w, frame_h>>
    /\ last.prev_in # NoPrev
    /\ heap[cur].prev = last.prev_in

\* box a contains box b on both axes
Contains(a, b) == a[1] <= b[1] /\ a[2] <= b[2] /\ b[3] <= a[3] /\ b[4] <= a[4]
\* C27 (as claimed): the minimum-area step and the aspect step only grow the
\* window, so the window handed to the smoother contains the padded box.
C27_OnlyGrows ==
    last.det # NoDet =>
        /\ Contains(last.after_min, PadBox(last.det, frame_w, frame_h, cfg))
        /\ Contains(AspectBox(last.after_min, frame_w, frame_h, cfg), last.after_min)
        /\ Contains(last.raw, PadBox(last.det, frame_w, frame_h, cfg))

(* the frames rendered *****************************************************)
\* the longest side of a frame
MaxSide == 4
\* cfg.max_upscale: 0.5, the default 1.0, 1.5 and 3.0
Upscales == {FRatio(50, 100), FRatio(100, 100), FRatio(150, 100), FRatio(300, 100)}
\* the windows inside a frame of width w and height h, those without area
\* included
WindowsIn(w, h) ==
    {<<x1, y1, x2, y2>> : x1 \in 0..w, y1 \in 0..h, x2 \in 0..w, y2 \in 0..h}
        \cap {b \in Int \X Int \X Int \X Int : b[1] <= b[3] /\ b[2] <= b[4]}

\* one frame of some size is rendered under some max_upscale
InitRender ==
    /\ JobsIdle
    /\ PipeIdle
    /\ frame_w \in 1..MaxSide
    /\ frame_h \in 1..MaxSide
    /\ cfg = DefaultConfig
    /\ heap = <<NewSmoother(0)>>
    /\ cur = 1
    /\ inv = [t \in Threads |-> ThreadIdle]
    /\ dirs = {}
    /\ runs = 0
    /\ last = NoCrop
    /\ max_upscale \in Upscales
    /\ shown = NotShown
NextRender == \E crop \in WindowsIn(frame_w, frame_h) : Render(crop)
SpecRender == InitRender /\ [][NextRender]_vars

\* C21: whatever the window inside the frame and whatever max_upscale, the
\* frame _crop_and_letterbox returns has the width and height of the stream:
\* the resized crop is no wider and no higher than the canvas and lies inside
\* it at offsets that are not negative, and a window without area returns the
\* frame as it came.
C21_OutputSize ==
    shown.kind # "none" =>
        /\ shown.kind # "raised"
        /\ shown.w = frame_w /\ shown.h = frame_h
        /\ shown.kind = "frame" <=> shown.cw * shown.ch = 0
        /\ shown.kind = "canvas" =>
              /\ 1 <= shown.new_w /\ shown.new_w <= frame_w
              /\ 1 <= shown.new_h /\ shown.new_h <= frame_h
              /\ 0 <= shown.x_off /\ shown.x_off + shown.new_w <= frame_w
              /\ 0 <= shown.y_off /\ shown.y_off + shown.new_h <= frame_h
\* a crop smaller than the frame is enlarged to the full width of the canvas
\* and centred between two black bars
C21_Witness ==
    /\ shown.kind = "canvas"
    /\ FLess(FInt(1), max_upscale)
    /\ shown.cw < shown.new_w
    /\ shown.new_w = frame_w
    /\ shown.y_off > 0

\* C22 (as claimed): the scale applied is the least of out_w / crop_w,
\* out_h / crop_h and max_upscale.
C22_ScaleIsMin ==
    shown.kind = "canvas" =>
        shown.scale = FMin(FMin(FDiv(FInt(frame_w), FInt(shown.cw)),
                                FDiv(FInt(frame_h), FInt(shown.ch))),
                           max_upscale)

(* redelivery ************************************************************)
\* The task of a job delivered again and again, one delivery after the
\* other, with the pipeline ending the same way every time: the outcome is
\* fixed when the job is submitted.  No cleanup request runs, so the stall
\* threshold plays no part.
DeliverNext(w, j) ==
    /\ \A v \in Workers : wk[v].pc = "idle"
    /\ Deliver(w, j)

InitRedeliver == JobInit /\ stalled_minutes = 0 /\ PipeIdle /\ RunIdle /\ RenderIdle
NextRedeliver ==
    \/ Tick
    \/ \E u \in Uris : \E f \in RunOutcomes(u, output_bucket) : SubmitPersist(u, f)
    \/ \E j \in JobIds : SubmitEnqueue(j)
    \/ \E w \in Workers, j \in JobIds : DeliverNext(w, j)
    \/ \E w \in Workers : Get(w)
    \/ \E w \in Workers : Mark(w)
    \/ \E w \in Workers : FinishAny(w)
    \/ \E w \in Workers : Crash(w)
SpecRedeliver == InitRedeliver /\ [][NextRedeliver]_vars

\* Periodic cleanup with no concurrent writer: submit, worker and cleanup
\* requests run one at a time; the scheduler calls cleanup without end and
\* every cleanup request that started runs to its end.
InitScan ==
    JobInit /\ stalled_minutes > 0 /\ output_bucket = <<"o">> /\ PipeIdle /\ RunIdle
    /\ RenderIdle
\* one step of the cleanup request that is running
CleanupStep ==
    \/ StallQuery
    \/ StallBatch
    \/ StallCommit
    \/ RetQuery
    \/ RetCommit
    \/ CleanupReturn
\* a request that writes to the store starts only while no other one runs
NoWorkerRuns == \A w \in Workers : wk[w].pc = "idle"
NoCleanupRuns == cl.pc = "idle"
SubmitAlone == NoCleanupRuns /\ SubmitPersist(UriGs, AnyOutcome)
DeliverAlone(j) == NoCleanupRuns /\ DeliverNext("w1", j)
CleanupAlone == NoWorkerRuns /\ CleanupRepeat
NextScan ==
    \/ Tick
    \/ SubmitAlone
    \/ \E j \in JobIds : SubmitEnqueue(j)
    \/ \E j \in JobIds : DeliverAlone(j)
    \/ Get("w1")
    \/ Mark("w1")
    \/ FinishAny("w1")
    \/ Crash("w1")
    \/ CleanupAlone
    \/ CleanupStep
ScanFairness == WF_vars(CleanupAlone) /\ WF_vars(CleanupStep)
SpecScan == InitScan /\ [][NextScan]_vars /\ ScanFairness

(***************************************************************************)
(* Claims about the job lifecycle.                                         *)
(***************************************************************************)
StalledError(minutes) == <<"stalled: no update in ", minutes, " minutes">>
HasField(doc, k) == k \in DOMAIN doc
\* the step is the commit of a stall page / of a retention page
StallCommitStep == cl.pc = "stall_commit" /\ cl'.pc # "stall_commit"
RetCommitStep == cl.pc = "ret_commit" /\ cl'.pc # "ret_commit"

\* C2 (as claimed): once a job is done or failed, no step changes its status;
\* the only change left is its deletion by the retention scan.
C2_TerminalIsFinal ==
    [][\A j \in DOMAIN store :
          store[j].status \in Terminal =>
             IF j \in DOMAIN store'
             THEN store'[j].status = store[j].status
             ELSE RetCommitStep]_vars

\* C3 (as claimed): no step takes a job from queued directly to done or
\* failed.
C3_NoDirectTerminal ==
    [][\A j \in (DOMAIN store) \cap (DOMAIN store') :
          store[j].status = "queued" => store'[j].status \notin Terminal]_vars

\* C3 (amended): a job leaves queued either to processing, or to failed by
\* the commit of a stall page of the queued loop that holds it, with the
\* stall message; it never goes from queued directly to done, and no worker
\* request takes it from queued directly to failed.
C3_DirectOnlyByStall ==
    [][\A j \in (DOMAIN store) \cap (DOMAIN store') :
          (store[j].status = "queued" /\ store'[j].status # "queued") =>
             \/ store'[j].status = "processing"
             \/ /\ store'[j].status = "failed"
                /\ StallCommitStep
                /\ cl.status = "queued"
                /\ j \in cl.docs
                /\ store'[j].error = StalledError(stalled_minutes)]_vars

\* a job whose task was never created, hence never claimed by a worker, that
\* the stall scan failed
C3_Witness ==
    \E j \in DOMAIN store :
        /\ j \notin tasks
        /\ j \notin pending
        /\ store[j].status = "failed"
        /\ store[j].error = StalledError(stalled_minutes)

\* C4 (as claimed): a document has a result field only while done and an
\* error field only while failed.
C4_FieldsMatchStatus ==
    \A j \in DOMAIN store :
        /\ HasField(store[j], "result") => store[j].status = "done"
        /\ HasField(store[j], "error") => store[j].status = "failed"

\* the status, result and error of a document ("none" for a missing field)
Outcome(doc) ==
    <<doc.status,
      IF HasField(doc, "result") THEN doc.result ELSE "none",
      IF HasField(doc, "error") THEN doc.error ELSE "none">>
\* the document of job j after its submission and one delivery
SingleDelivery(j) ==
    Update(Update(SubmitDoc(j, store[j].uri, store[j].created_at_ts),
                  MarkFields(store[j].created_at_ts)),
           FinishFields(fate[j], store[j].created_at_ts))
Claimed(w) == wk[w].pc = "get" /\ wk'[w].pc # "get" /\ wk[w].job \in DOMAIN store

\* C5: after any number of deliveries of a job's task, one after the other
\* and each ending the same way, the document has the status, result and
\* error one delivery leaves; and a worker that finds the document, in
\* whatever status, goes on to mark it processing and to run the pipeline.
C5_Idempotent ==
    \A j \in DOMAIN store :
        (store[j].status \in Terminal /\ \A w \in Workers : wk[w].job # j) =>
            Outcome(store[j]) = Outcome(SingleDelivery(j))
C5_ClaimProceeds ==
    \A w \in Workers :
        /\ Claimed(w) => wk'[w].pc = "mark" /\ wk'[w].uri = store[wk[w].job].uri
        /\ (wk[w].pc = "mark" /\ wk'[w].pc # "mark") =>
              /\ wk'[w].pc = "run"
              /\ store'[wk[w].job].status = "processing"
\* C5: redelivery leaves what one delivery leaves, and every claim that
\* finds the document proceeds to the pipeline.
C5_RedeliveryIdempotent == []C5_Idempotent /\ [][C5_ClaimProceeds]_vars

\* a job delivered at least three times, the clock advanced in between, the
\* last delivery finished
C5_Witness ==
    /\ next_id = 2
    /\ events = MaxEvents
    /\ now = TickStep
    /\ 1 \in DOMAIN store
    /\ store[1].status = "done"
    /\ store[1].updated_at_ts = now
    /\ \A w \in Workers : wk[w].pc = "idle"

\* the step is the return of worker request w from the pipeline, lines 88-103
Returns(w) == wk[w].pc = "run" /\ wk'[w].pc = "idle" /\ ~Crash(w)
\* C15: a process invocation that marked its job processing writes, when it
\* returns, done with the output URI if the pipeline returned and failed
\* otherwise, with the ProcessingError's own message or the message of
\* another exception behind "unexpected: "; it never returns with the job
\* still in processing.
C15_TerminalOnReturn ==
    [][\A w \in Workers :
          Returns(w) =>
             LET j == wk[w].job
                 f == fate[j]
                 out == output_uri_for_input(wk[w].uri, output_bucket)
             IN /\ j \in DOMAIN store /\ j \in DOMAIN store'
                /\ store[j].status = "processing"
                /\ store'[j].status \in Terminal
                /\ store'[j].updated_at_ts = now
                /\ store'[j].status = "done" <=> f.kind = "ok"
                /\ f.kind = "ok" =>
                      /\ out.ok
                      /\ store'[j].result = [output_uri |-> out.uri]
                /\ f.kind = "processing_error" => store'[j].error = <<f.msg>>
                /\ f.kind = "exception" =>
                      store'[j].error = <<"unexpected: ", f.msg>>]_vars

\* a job whose pipeline raised an exception that is no ProcessingError,
\* delivered twice and failed both times
C15_Witness ==
    /\ events >= 3
    /\ \A w \in Workers : wk[w].pc = "idle"
    /\ \E j \in DOMAIN store :
          /\ fate[j].kind = "exception"
          /\ store[j].status = "failed"
          /\ store[j].error = <<"unexpected: ", ErrOther>>
          /\ store[j].updated_at_ts > store[j].created_at_ts

\* C6 (as claimed): the commit of a stall page changes a document only if, at
\* the commit, it is queued or processing and older than the stall cutoff.
C6_StallOnlyStalled ==
    [][StallCommitStep =>
          \A j \in DOMAIN store :
             store'[j] # store[j] =>
                /\ store[j].status \in {"queued", "processing"}
                /\ store[j].updated_at_ts < cl.stalled_cutoff]_vars

\* the stall loops of the running cleanup request are over
StallScanOver == cl.pc \in {"ret_query", "ret_commit", "done"}
\* the documents that were stalled when the cleanup request started
WasStalled(j) ==
    /\ snap[j].status \in {"queued", "processing"}
    /\ snap[j].updated_at_ts < cl.stalled_cutoff

\* what the stall scan leaves of a job it found stalled
StallFailed(j) ==
    /\ j \in DOMAIN store
    /\ store[j].status = "failed"
    /\ store[j].error = StalledError(stalled_minutes)
    /\ Head(store[j].error) = "stalled: no update in "
    /\ store[j].updated_at_ts >= cl.stalled_cutoff + Minutes(stalled_minutes)
    /\ store[j].updated_at_ts > snap[j].updated_at_ts
\* job j was left in processing by a worker request that is over, and its
\* last update is older than the threshold
LeftStalled(j) ==
    /\ stalled_minutes > 0
    /\ NoWorkerRuns
    /\ j \in DOMAIN store
    /\ store[j].status = "processing"
    /\ store[j].updated_at_ts < now - Minutes(stalled_minutes)
Failed(j) == j \in DOMAIN store /\ store[j].status = "failed"

\* when a cleanup request that ran alone has finished, every job that was
\* queued or processing and last updated before now - T is in the store,
\* failed with the stalled message and a refreshed updated_at
C7_AllFailed ==
    (stalled_minutes > 0 /\ cl.pc = "done" /\ quiet) =>
        \A j \in DOMAIN snap : WasStalled(j) => StallFailed(j)
\* C7 (as claimed): every job a finished scan found stalled has status
\* failed, the stalled message and a refreshed updated_at, and a job left in
\* processing by a worker that died eventually has status failed.
C7_StalledAlwaysFailed ==
    /\ []C7_AllFailed
    /\ \A j \in JobIds : LeftStalled(j) ~> Failed(j)

\* With a stall threshold T > 0 and no concurrent writer, once the stall
\* scan is over every job that was queued or processing and last updated
\* before now - T is failed, with the message "stalled: no update in T
\* minutes" and updated_at set by the scan (not before the scan's start);
\* such a job is missing only if the retention scan of the same request
\* deleted it as expired.
C7_StalledAreFailed ==
    (stalled_minutes > 0 /\ StallScanOver /\ quiet) =>
        \A j \in DOMAIN snap :
            WasStalled(j) =>
                \/ StallFailed(j)
                \/ /\ j \notin DOMAIN store
                   /\ snap[j].created_at_ts < cl.cutoff

\* job j is failed, or deleted as expired
FailedOrDeleted(j) == j \in DOMAIN store => store[j].status = "failed"
\* C7: every stalled job is failed by a scan that runs alone, unless the
\* retention scan of the same request then deletes it as expired; and a job
\* left in processing by a worker that died is eventually failed or deleted
\* as expired when cleanup is called repeatedly, unless a worker request
\* runs first (the job is then left stalled anew when that request is over).
C7_StalledEventuallyFailed ==
    /\ []C7_StalledAreFailed
    /\ \A j \in JobIds : LeftStalled(j) ~> (FailedOrDeleted(j) \/ ~NoWorkerRuns)

\* a cleanup request has finished: a job left in processing by a worker
\* that died was failed by its stall scan, and another stalled job, older
\* than the retention window, was deleted by its retention scan
C7_Witness ==
    /\ stalled_minutes > 0
    /\ cl.pc = "done"
    /\ quiet
    /\ \E j \in (DOMAIN snap) \cap (DOMAIN store) :
          /\ snap[j].status = "processing"
          /\ WasStalled(j)
          /\ \A w \in Workers : wk[w].job # j
          /\ StallFailed(j)
    /\ \E j \in (DOMAIN snap) \ (DOMAIN store) : WasStalled(j)

\* C8: when a cleanup request finishes with no concurrent writer, no job
\* created before now - retention is left, whatever its status, and every
\* other job is still there, unchanged unless the stall scan failed it.
C8_ExpiredAreDeleted ==
    (cl.pc = "done" /\ quiet) =>
        /\ \A j \in DOMAIN store : store[j].created_at_ts >= cl.cutoff
        /\ \A j \in DOMAIN snap :
              IF snap[j].created_at_ts < cl.cutoff
              THEN j \notin DOMAIN store
              ELSE /\ j \in DOMAIN store
                   /\ \/ store[j] = snap[j]
                      \/ /\ WasStalled(j)
                         /\ stalled_minutes > 0
                         /\ store[j] = Update(snap[j],
                                StalledFields(stalled_minutes, store[j].updated_at_ts))

\* a done job that expired and was deleted
C8_Witness ==
    /\ cl.pc = "done"
    /\ quiet
    /\ \E j \in (DOMAIN snap) \ (DOMAIN store) : snap[j].status = "done"

\* C9: no page of either scan holds more than the page limit, and without a
\* concurrent writer the commit of a page takes every document of the page
\* out of the set the scan's query matches and adds none to it, so the set
\* shrinks with every page and the loop ends.
C9_PageBound == Cardinality(cl.docs) <= PageLimit
C9_StallShrinks ==
    (StallCommitStep /\ quiet') =>
        /\ cl.docs # {}
        /\ StalledMatch(cl.status, cl.stalled_cutoff)' =
              StalledMatch(cl.status, cl.stalled_cutoff) \ cl.docs
C9_RetShrinks ==
    (RetCommitStep /\ quiet') =>
        /\ cl.docs # {}
        /\ ExpiredMatch(cl.cutoff)' = ExpiredMatch(cl.cutoff) \ cl.docs
\* C9: pages are bounded and every committed page shrinks the matching set.
C9_PagedAndShrinking ==
    /\ []C9_PageBound
    /\ [][C9_StallShrinks /\ C9_RetShrinks]_vars

\* a second page: the scan queries again after a commit and still finds a
\* document
C9_Witness ==
    /\ cl.pc \in {"stall_batch", "ret_commit"}
    /\ quiet
    /\ Cardinality(cl.docs) = PageLimit
    /\ \E j \in DOMAIN snap :
          j \notin cl.docs /\ (j \notin DOMAIN store \/ store[j] # snap[j])

(***************************************************************************)
(* Claims about the pipeline.                                              *)
(***************************************************************************)
\* frames 0..n-1 of the source, each with its own index
FramesUpTo(n) == [i \in 1..n |-> <<i - 1, i - 1>>]
\* the frames of the batches of a sequence of items, in order
RECURSIVE FramesOf(_)
FramesOf(items) ==
    IF items = <<>> THEN <<>>
    ELSE (IF Head(items).kind = "batch" THEN Head(items).frames ELSE <<>>)
         \o FramesOf(Tail(items))

\* C1: when _process_video returns, the frames written to the encoder are
\* the frames 0..N-1 of the source, each once and in order, the last partial
\* batch included; and at every moment the frames written so far are the
\* first frames of the source in order.
C1_FramesInOrder ==
    /\ result.kind = "ok" => written = FramesUpTo(n_frames)
    /\ written = FramesUpTo(Len(written))
    /\ Len(written) <= n_frames

\* a successful run over a source whose last batch is partial
C1_Witness ==
    /\ result.kind = "ok"
    /\ batch_size = 2
    /\ n_frames = 2 * batch_size + 1
    /\ Len(written) = n_frames

\* C10: the reader's exception is put on the queue behind every batch put
\* before it and nothing is put after it; the queue hands the items over in
\* the order they were put; once the main thread has taken the failure item
\* it writes no further frame (what is written stays the frames of the
\* batches put), it kills the encoder, waits for it, and raises that same
\* exception; and no run in which the reader raised returns normally.
C10_FailureLast ==
    \A i \in 1..Len(put_log) : put_log[i].kind = "exc" =>
        /\ i = Len(put_log)
        /\ put_log[i].exc = rd.exc
        /\ rd.pc = "done"
C10_Fifo ==
    /\ Len(frame_queue) <= Len(put_log)
    /\ frame_queue = SubSeq(put_log, Len(put_log) - Len(frame_queue) + 1, Len(put_log))
C10_AbortOnFailure ==
    cs.exc = ReadError =>
        /\ rd.exc = ReadError
        /\ frame_queue = <<>>
        /\ written = FramesOf(put_log)
        /\ cs.pc \in {"kill", "wait_killed", "release", "join", "raised"}
        /\ cs.pc \in {"wait_killed", "release", "join", "raised"} => proc.killed
        /\ cs.pc \in {"release", "join", "raised"} =>
              proc.waited /\ proc.state = "exited"
        /\ cs.pc = "raised" => result = [kind |-> "raised", exc |-> ReadError]
        /\ cs.pc # "raised" => result.kind = "running"
C10_NeverSuccess ==
    rd.exc # "none" => result.kind # "ok"
\* C10: the reader's failure is queued last, handed over in order, aborts
\* the encoder, is raised to the caller, and never ends in a normal return.
C10_ProducerFailurePropagates ==
    /\ C10_FailureLast
    /\ C10_Fifo
    /\ C10_AbortOnFailure
    /\ C10_NeverSuccess

\* the reader raised after full batches were put and with frames in its
\* buffer; the main thread wrote the batches, took the failure and raised it
C10_Witness ==
    /\ cs.pc = "raised"
    /\ result = [kind |-> "raised", exc |-> ReadError]
    /\ Len(put_log) >= 3
    /\ rd.buf # <<>>
    /\ Len(written) >= 2

IsTerminator(item) == item.kind \in {"none", "exc"}
Terminators(items) == {i \in 1..Len(items) : IsTerminator(items[i])}
ReaderPutting == rd.pc \in {"put_batch", "put_last", "put_none", "put_exc"}
\* the reader will take no further step: it left _reader, or it waits in
\* put() on a full queue that the main thread, gone, will never take from
ReaderHalted ==
    \/ rd.pc = "done"
    \/ ReaderPutting /\ ~CanPut /\ cs.pc = "raised"

\* C11 (as claimed): what the reader puts is batches followed by exactly one
\* terminator, the sentinel or a failure: no terminator has anything after
\* it, there are never two, and a reader that takes no further step has put
\* one.
C11_ExactlyOneTerminator ==
    /\ \A i \in Terminators(put_log) : i = Len(put_log)
    /\ Cardinality(Terminators(put_log)) <= 1
    /\ ReaderHalted => Cardinality(Terminators(put_log)) = 1

\* the frames decoded and not yet written to the encoder
InFlight == cap.pos - Len(written)
C12_Bounded ==
    /\ Len(frame_queue) <= QueueMax
    /\ InFlight <= (QueueMax + 2) * batch_size
C12_Blocking ==
    /\ Len(frame_queue') > Len(frame_queue) => Len(frame_queue) < QueueMax
    /\ Len(frame_queue') < Len(frame_queue) => Len(frame_queue) >= 1
    /\ Len(frame_queue') - Len(frame_queue) \in {-1, 0, 1}
\* C12: the queue never holds more than 4 items, an item is put only on a
\* queue of fewer than 4 and taken only from one that is not empty, and the
\* frames decoded and not yet written are at most (4 + 2) * batch_size.
C12_QueueBound == []C12_Bounded /\ [][C12_Blocking]_vars

\* the queue is full, the reader waits with a full batch and the main
\* thread holds one more: (4 + 2) * batch_size frames are in flight
C12_Witness ==
    /\ Len(frame_queue) = QueueMax
    /\ rd.pc = "put_batch"
    /\ InFlight = (QueueMax + 2) * batch_size

\* the encoder's stdin was open when the run started and is closed now
StdinClosed == proc.state # "none" /\ ~proc.stdin_open
\* C13 (as claimed): stdin is closed only after the sentinel was taken and
\* every frame put was written; the wait follows the close and the check
\* follows the wait; a normal return needs exit code 0, and once stdin is
\* closed and the call is over the encoder was waited for and a non-zero
\* exit code has raised the encode error.
C13_OrderedShutdown ==
    /\ StdinClosed =>
          /\ put_log # <<>>
          /\ put_log[Len(put_log)] = Sentinel
          /\ frame_queue = <<>>
          /\ written = FramesOf(put_log)
          /\ cs.pc \in {"wait", "check", "returned", "raised"}
    /\ cs.pc = "wait" => StdinClosed
    /\ cs.pc \in {"check", "returned"} =>
          StdinClosed /\ proc.waited /\ proc.state = "exited"
    /\ result.kind = "ok" => cs.pc = "returned" /\ proc.returncode = 0 /\ ~proc.killed
    /\ (StdinClosed /\ cs.pc \in {"returned", "raised"}) =>
          /\ proc.waited
          /\ proc.returncode # 0 => result = [kind |-> "raised", exc |-> EncodeError]

IsBatch(item) == item.kind = "batch"
\* the batches the reader put so far, and those the main thread took
BatchesPut == SelectSeq(put_log, IsBatch)
BatchesTaken == SelectSeq(SubSeq(put_log, 1, Len(put_log) - Len(frame_queue)), IsBatch)
Ceil(n, d) == (n + d - 1) \div d
\* C23: the batches the reader puts are not empty and hold batch_size
\* frames, the last one possibly fewer; once it has put the sentinel their
\* number is the number of frames the decoder delivered (N for a source read
\* to its end) divided by batch_size, rounded up; the detector is called once
\* for every batch taken from the queue, with the frames of that batch; and
\* every frame is rendered with the detection of its own picture.
C23_BatchedDetection ==
    /\ \A i \in 1..Len(BatchesPut) :
          /\ 1 <= Len(BatchesPut[i].frames)
          /\ Len(BatchesPut[i].frames) <= batch_size
          /\ i < Len(BatchesPut) => Len(BatchesPut[i].frames) = batch_size
    /\ (\E i \in 1..Len(put_log) : put_log[i] = Sentinel) =>
          /\ Len(BatchesPut) = Ceil(cap.pos, batch_size)
          /\ cap.pos = n_frames \/ cap.released
    /\ Len(cs.calls) = Len(BatchesTaken) - (IF cs.pc = "detect" THEN 1 ELSE 0)
    /\ \A i \in 1..Len(cs.calls) : cs.calls[i] = Pictures(BatchesTaken[i].frames)
    /\ Len(cs.pairs) = Len(written)
    /\ \A i \in 1..Len(cs.pairs) :
          /\ cs.pairs[i][1] = written[i]
          /\ cs.pairs[i][2] = DetOf(written[i][2])
\* a source of five frames went through in batches of two: three batches,
\* three detection calls, five frames rendered
C23_Witness ==
    /\ cs.pc = "returned"
    /\ n_frames = 5 /\ batch_size = 2
    /\ Len(BatchesPut) = 3 /\ Len(BatchesPut[3].frames) = 1
    /\ Len(cs.calls) = 3
    /\ Len(cs.pairs) = 5

(* the threads of _process_video under fair scheduling ********************)
\* the steps of the reader thread and of the main thread
ReaderStep == ReadFrame \/ ReadEnd \/ ReadRaises \/ PutBatch \/ PutLast \/ PutNone \/ PutExc
MainStep ==
    \/ Open
    \/ CheckDimensions
    \/ StartReader
    \/ Popen
    \/ GetItem
    \/ Detect
    \/ WriteFrame
    \/ Kill
    \/ WaitKilled
    \/ Release
    \/ Join
    \/ CloseStdin
    \/ WaitExit
    \/ CheckExit
\* a thread that can take a step is not held back for ever; a thread that
\* waits in put() or get() can take none
ThreadFairness == WF_vars(ReaderStep) /\ WF_vars(MainStep)

\* the input opens with its dimensions, the encoder starts, cap.read() does
\* not raise, the detection call returns and the encoder stays alive while
\* frames are piped to it
OpenOk == Open /\ cs'.pc = "dimensions"
DimensionsOk == CheckDimensions /\ cs'.pc = "start_reader"
PopenOk == Popen /\ cs'.pc = "get"
DetectReturns == Detect /\ cs'.pc = "write"
NextSound ==
    \/ OpenOk
    \/ DimensionsOk
    \/ StartReader
    \/ PopenOk
    \/ ReadFrame
    \/ ReadEnd
    \/ PutBatch
    \/ PutLast
    \/ PutNone
    \/ GetItem
    \/ DetectReturns
    \/ WriteFrame
    \/ Release
    \/ Join
    \/ CloseStdin
    \/ WaitExit
    \/ CheckExit
SpecSound == InitPipe /\ [][NextSound]_vars /\ ThreadFairness

\* _process_video under fair scheduling, failures included
SpecAbort == InitPipe /\ [][PipeNext]_vars /\ ThreadFairness

ReaderBlocked == ReaderPutting /\ ~CanPut
MainBlocked == cs.pc = "get" /\ frame_queue = <<>>
\* the call is over: the reader left _reader after the sentinel, the main
\* thread took the sentinel and returned or raised
PipeDone ==
    /\ rd.pc = "done"
    /\ put_log # <<>> /\ put_log[Len(put_log)] = Sentinel
    /\ frame_queue = <<>>
    /\ cs.pc \in {"returned", "raised"}
    /\ Len(written) = n_frames
\* C24: under fair scheduling, with a detection call that returns and an
\* encoder that stays alive, every call of _process_video ends, the reader
\* having put the sentinel and left, the main thread having taken it; and the
\* reader and the main thread never both wait on the queue.
C24_Terminates == <>PipeDone /\ [](~(ReaderBlocked /\ MainBlocked))
\* the reader waited on the full queue and the call still ended
C24_Witness ==
    /\ PipeDone
    /\ n_frames > QueueMax * batch_size
    /\ result.kind = "ok"

\* the main thread raised an exception of its own
MainAborted == cs.exc \in {DetectError, BrokenPipe} /\ cs.pc = "raised"
\* C25 (as claimed): after the main thread aborts on a failure of its own,
\* the reader eventually leaves _reader.
C25_ReaderEnds == MainAborted ~> rd.pc = "done"

(* the fields of a job record *********************************************)
\* the jobs a step leaves in the store
Kept == (DOMAIN store) \cap (DOMAIN store')
C28_IdentityKept ==
    \A j \in Kept :
        /\ store'[j].job_id = store[j].job_id
        /\ store'[j].uri = store[j].uri
        /\ store'[j].created_at_ts = store[j].created_at_ts
\* the time a status write carries is the time its request read for it: the
\* clock at the write, or now_ts of the stall page
C28_Stamped ==
    \A j \in Kept :
        store'[j].status # store[j].status =>
            store'[j].updated_at_ts \in {now, cl.now_ts}
C28_Monotonic ==
    \A j \in Kept : store'[j].updated_at_ts >= store[j].updated_at_ts
C28_AfterCreation ==
    \A j \in DOMAIN store : store[j].updated_at_ts >= store[j].created_at_ts
\* C28 (as claimed): no write changes a job's id, uri or created_at; every
\* status write sets updated_at to the current time; updated_at is never
\* before created_at and never decreases.
C28_StableFields ==
    /\ [][C28_IdentityKept /\ C28_Stamped /\ C28_Monotonic]_vars
    /\ []C28_AfterCreation

(* requests to /process and the records they find *************************)
\* Submissions, deliveries of their tasks, requests that are no task of a
\* submission, and the retention scan; the stall scan is switched off.
InitStray ==
    JobInit /\ stalled_minutes = 0 /\ output_bucket = <<"o">> /\ PipeIdle /\ RunIdle
    /\ RenderIdle
NextStray ==
    \/ Tick
    \/ \E u \in SubmitInputs : SubmitPersist(u, AnyOutcome)
    \/ \E j \in JobIds : SubmitEnqueue(j)
    \/ \E j \in JobIds : SubmitEnqueueFail(j)
    \/ \E w \in Workers, j \in JobIds : Deliver(w, j)
    \/ \E w \in Workers, j \in {NoJobId, UnknownId} : Stray(w, j)
    \/ \E w \in Workers : Get(w)
    \/ \E w \in Workers : Mark(w)
    \/ \E w \in Workers : FinishAny(w)
    \/ \E w \in Workers : Crash(w)
    \/ CleanupStart
    \/ RetQuery
    \/ RetCommit
    \/ CleanupReturn
SpecStray == InitStray /\ [][NextStray]_vars

\* the job ids submissions have persisted so far
Persisted == 1..(next_id - 1)
\* a new record is queued, with created_at = updated_at, and has no task yet
C29_PersistFirst ==
    \A j \in (DOMAIN store') \ (DOMAIN store) :
        /\ j = next_id /\ next_id' = next_id + 1
        /\ store'[j].status = "queued"
        /\ store'[j].created_at_ts = store'[j].updated_at_ts
        /\ j \notin tasks' /\ j \in pending'
\* a task is created for a job persisted before; a record goes only by the
\* retention scan
C29_EnqueueLater ==
    /\ \A j \in tasks' \ tasks : j \in pending /\ j \in Persisted
    /\ \A j \in (DOMAIN store) \ (DOMAIN store') : RetCommitStep
\* a request without job id or for a job id without record writes nothing
C29_NoRecordNoWrite ==
    \A w \in Workers :
        (/\ wk[w].pc # "idle"
         /\ wk[w].job = NoJobId \/ wk[w].job \notin DOMAIN store
         /\ wk'[w] # wk[w]) => store' = store
\* the tasks, delivered or not, are tasks of persisted jobs
C29_TasksPersisted ==
    /\ tasks \subseteq Persisted
    /\ pending \subseteq Persisted
    /\ DOMAIN store \subseteq Persisted
    /\ \A w \in Workers :
          wk[w].pc # "idle" => wk[w].job \in Persisted \cup {NoJobId, UnknownId}
\* C29: submit persists the record, queued and with created_at = updated_at,
\* before it creates the task, and a record goes only by the retention scan,
\* so a delivered task finds its record unless that scan deleted it; a request
\* for a job id without record, or without job id, leaves the store as it is.
C29_RecordBeforeTask ==
    /\ [][C29_PersistFirst /\ C29_EnqueueLater /\ C29_NoRecordNoWrite]_vars
    /\ []C29_TasksPersisted
\* a delivered task whose record the retention scan has deleted is about to
\* be answered
C29_Witness ==
    \E w \in Workers :
        /\ wk[w].pc = "get"
        /\ wk[w].job \in Persisted
        /\ wk[w].job \notin DOMAIN store
====
